---- MODULE Spec2Model ----
(***************************************************************************)
(* Model of dpo::DetailedMgr (the detailed-placement manager): the segment *)
(* builder, the assignment of cells to segments and the move/swap engine   *)
(* with its staged move list.                                              *)
(*                                                                         *)
(* Conventions.  Rows are numbered 0..numRows-1 as in the code.  Cells are *)
(* numbered 1..n and NoCell (0) stands for a null Node pointer.  Segment k *)
(* of the code (m_segments[k], getSegId() = k) is element k+1 of the       *)
(* sequence m_segments, and NoSeg (0) stands for the code's -1 / null      *)
(* DetailedSeg pointer.  A cell centre left + 0.5*width is kept doubled    *)
(* (2*left + width) so that all arithmetic stays in the integers.          *)
(***************************************************************************)
EXTENDS Integers, Sequences, FiniteSets, TLC

VARIABLES
  design,               \* Architecture and Network: rows, regions, cells (read-only)
  left,                 \* Node::getLeft() of every cell
  bottom,               \* Node::getBottom() of every cell
  m_blockages,          \* per row, the merged blockage intervals <<lo, hi>>
  m_segments,           \* the DetailedSeg objects: rowId, regId, minX, maxX, util
  m_segsInRow,          \* per row, the segments of the row in creation order
  m_cellsInSeg,         \* per segment, the ordered cell list
  m_reverseCellToSegs,  \* per cell, the segments it has been added to
  m_maxDispX,           \* displacement limits
  m_maxDispY,
  moveList,             \* entries 0..m_nMoved-1 of m_movedNodes, m_curLeft, ...
  pc,                   \* position of the caller in the build/assign/propose protocol
  lastOp,               \* the operation that produced this state and its inputs
  ret,                  \* what the last proposal returned, until the next build or assign
  halted,               \* internalError() was raised: the process has exited
  steps                 \* state-changing calls made since the first assignment

vars == <<design, left, bottom, m_blockages, m_segments, m_segsInRow,
          m_cellsInSeg, m_reverseCellToSegs, m_maxDispX, m_maxDispY,
          moveList, pc, lastOp, ret, halted, steps>>

NoCell == 0
NoSeg == 0
\* A reverse-map entry that points to a DetailedSeg deleted by findSegments.
Dangling == -1

(***************************************************************************)
(* Arithmetic of the code: C++ integer division truncates toward zero.     *)
(***************************************************************************)
Max(a, b) == IF a >= b THEN a ELSE b
Min(a, b) == IF a <= b THEN a ELSE b
Abs(a) == IF a >= 0 THEN a ELSE -a
\* An integer division that rounds up.
TruncDivRoundingUp(a, b) == -((-a) \div b)
TruncDiv(a, b) == IF a >= 0 THEN a \div b ELSE -((-a) \div b)
FloorDiv(a, b) == a \div b
\* A conversion to sites that rounds down.
CeilDivRoundingDown(a, b) == a \div b
CeilDiv(a, b) == -((-a) \div b)

\* The elements of a set of integers in ascending order.
RECURSIVE SetToSeq(_)
SetToSeq(S) ==
  IF S = {} THEN <<>>
  ELSE LET m == CHOOSE x \in S : \A y \in S : x <= y
       IN <<m>> \o SetToSeq(S \ {m})

Range(s) == {s[i] : i \in 1..Len(s)}

\* s with x inserted so that it becomes element k (1 <= k <= Len(s)+1).
InsertAt(s, k, x) == SubSeq(s, 1, k - 1) \o <<x>> \o SubSeq(s, k, Len(s))
RemoveAt(s, k) == SubSeq(s, 1, k - 1) \o SubSeq(s, k + 1, Len(s))
\* std::find: the first index of x in s, or Len(s)+1 (end()).
Find(s, x) ==
  IF \E i \in 1..Len(s) : s[i] = x
  THEN CHOOSE i \in 1..Len(s) : s[i] = x /\ \A j \in 1..(i - 1) : s[j] # x
  ELSE Len(s) + 1

(***************************************************************************)
(* Architecture and Network queries (read-only collaborators).             *)
(***************************************************************************)
Rows(d) == 0..(d.numRows - 1)
Cells(d) == DOMAIN d.cells
RowBottom(d, r) == d.minY + r * d.rowHeight
RowTop(d, r) == RowBottom(d, r) + d.rowHeight
Width(d, c) == d.cells[c].w
Height(d, c) == d.cells[c].h * d.rowHeight
RegionId(d, c) == d.cells[c].reg

\* Architecture::getCellHeightInRows
getCellHeightInRows(d, c) == d.cells[c].h

\* A getCellSpacing that ignores the padding.
getCellSpacingNone(d, l, r) == 0

\* Architecture::getCellSpacing(leftNode, rightNode): the right padding of the
\* left cell plus the left padding of the right cell; a null cell adds nothing.
getCellSpacing(d, l, r) ==
  (IF l = NoCell THEN 0 ELSE d.cells[l].padR) +
  (IF r = NoCell THEN 0 ELSE d.cells[r].padL)

\* Architecture::find_closest_row: the row whose bottom is nearest to y (the
\* lower one on a tie), rows being stacked from minY.
find_closest_row(d, y) ==
  CHOOSE r \in Rows(d) :
    \A q \in Rows(d) :
      \/ Abs(RowBottom(d, r) - y) < Abs(RowBottom(d, q) - y)
      \/ (Abs(RowBottom(d, r) - y) = Abs(RowBottom(d, q) - y) /\ r <= q)

\* Architecture::power_compatible(nd, row, flip)
power_compatible(d, c, r) == r \in d.cells[c].pwr

(***************************************************************************)
(* findBlockages.                                                          *)
(***************************************************************************)
\* compareBlockages: lexicographic order on <<first, second>>.
compareBlockages(a, b) == IF a[1] = b[1] THEN a[2] < b[2] ELSE a[1] < b[1]

\* std::sort with compareBlockages.
RECURSIVE SortBlockages(_)
SortBlockages(s) ==
  IF Len(s) <= 1 THEN s
  ELSE LET k == CHOOSE i \in 1..Len(s) :
                  \A j \in 1..Len(s) : ~compareBlockages(s[j], s[i])
       IN <<s[k]>> \o SortBlockages(RemoveAt(s, k))

\* The stack-based merge of a sorted interval list (the stack is kept bottom
\* first, so the final re-sort of the code leaves exactly this order).
RECURSIVE MergeLoop(_, _, _)
MergeLoop(s, i, stack) ==
  IF i > Len(s) THEN stack
  ELSE LET top == stack[Len(stack)]
       IN IF top[2] < s[i][1]
          THEN MergeLoop(s, i + 1, Append(stack, s[i]))
          ELSE MergeLoop(s, i + 1,
                 SubSeq(stack, 1, Len(stack) - 1)
                   \o << <<top[1], Max(top[2], s[i][2])>> >>)

SortAndMerge(s) ==
  IF Len(s) = 0 THEN s
  ELSE LET t == SortBlockages(s) IN SortBlockages(MergeLoop(t, 2, <<t[1]>>))

\* collectFixedCells: the fixed cells, in node order.
FixedCells(d) == SetToSeq({c \in Cells(d) : d.cells[c].fixed})

\* The blockage interval a fixed cell puts on the rows it overlaps in y.
FixedCellInterval(d, lf, c) ==
  << Max(d.minX, lf[c]) - getCellSpacing(d, NoCell, c),
     Min(d.maxX, lf[c] + Width(d, c)) + getCellSpacing(d, c, NoCell) >>

FixedCellCoversRow(d, bt, c, r) ==
  LET ymin == Max(d.minY, bt[c])
      ymax == Min(d.maxY, bt[c] + Height(d, c))
  IN ~(ymin >= RowTop(d, r) \/ ymax <= RowBottom(d, r))

\* A routing blockage rectangle on layer 0 or 1 that spans the whole row in y
\* blocks the sites it touches: [floor, ceil] in sites.
RouteInterval(d, rect, r) ==
  LET originX == d.rowLeft[r]
      sp == d.siteSpacing[r]
      i0 == FloorDiv(rect.xmin - originX, sp)
      f1 == FloorDiv(rect.xmax - originX, sp)
      i1 == IF originX + f1 * sp # rect.xmax THEN f1 + 1 ELSE f1
  IN <<originX + i0 * sp, originX + i1 * sp, i1 > i0>>

RouteCoversRow(d, rect, r) ==
  LET lb == d.minY + r * d.rowHeight
      ub == lb + d.rowHeight
  IN rect.ymax >= ub /\ rect.ymin <= lb

findBlockages(d, lf, bt, includeRouteBlockages) ==
  [r \in Rows(d) |->
     LET fx == FixedCells(d)
         fromCells == SelectSeq([k \in 1..Len(fx) |->
                         <<FixedCellInterval(d, lf, fx[k]),
                           FixedCellCoversRow(d, bt, fx[k], r)>>],
                        LAMBDA p : p[2])
         rects == IF includeRouteBlockages
                  THEN SelectSeq(d.routeBlockages, LAMBDA q : q.layer <= 1)
                  ELSE <<>>
         fromRoute == SelectSeq([k \in 1..Len(rects) |->
                         LET iv == RouteInterval(d, rects[k], r)
                         IN <<<<iv[1], iv[2]>>,
                              RouteCoversRow(d, rects[k], r) /\ iv[3]>>],
                        LAMBDA p : p[2])
     IN SortAndMerge([k \in 1..Len(fromCells) |-> fromCells[k][1]]
                       \o [k \in 1..Len(fromRoute) |-> fromRoute[k][1]])]

(***************************************************************************)
(* findSegments.                                                           *)
(***************************************************************************)
NewSeg(r, reg, x1, x2) == [rowId |-> r, regId |-> reg, minX |-> x1, maxX |-> x2, util |-> 0]

\* The x-intervals left free by the merged blockages blk of row r, in the order
\* in which the code creates their segments.
FreeIntervals(d, blk, r) ==
  LET lx == d.rowLeft[r]
      rx == d.rowRight[r]
      lo == Max(d.minX, lx)
      hi == Min(d.maxX, rx)
      n == Len(blk)
      first == IF blk[1][1] > lo THEN << <<lo, Min(hi, blk[1][1])>> >> ELSE <<>>
      mid(i) == IF blk[i][1] > blk[i - 1][2]
                THEN << <<Max(lo, blk[i - 1][2]), Min(hi, blk[i][1])>> >>
                ELSE <<>>
      RECURSIVE Mids(_)
      Mids(i) == IF i > n THEN <<>> ELSE mid(i) \o Mids(i + 1)
      last == IF blk[n][2] < hi THEN << <<Min(hi, Max(lo, blk[n][2])), hi>> >> ELSE <<>>
      all == IF n = 0 THEN << <<lo, hi>> >> ELSE first \o Mids(2) \o last
  IN SelectSeq(all, LAMBDA iv : iv[2] > iv[1])

\* First part of findSegments: one segment per free interval, row by row.
RECURSIVE RowSegments(_, _, _, _)
RowSegments(d, blk, r, acc) ==
  IF r >= d.numRows THEN acc
  ELSE LET ivs == FreeIntervals(d, blk[r], r)
           new == [k \in 1..Len(ivs) |-> NewSeg(r, 0, ivs[k][1], ivs[k][2])]
           ids == [k \in 1..Len(ivs) |-> Len(acc.segs) + k]
       IN RowSegments(d, blk, r + 1,
            [acc EXCEPT !.segs = @ \o new, !.inRow[r] = ids])

\* findRegionIntervals: per row, the merged site-snapped x-intervals of the
\* rectangles of region reg that span the whole row in y.
findRegionIntervals(d, reg) ==
  [r \in Rows(d) |->
     LET rects == d.regions[reg]
         hits == SelectSeq([k \in 1..Len(rects) |->
                    LET iv == RouteInterval(d, rects[k], r)
                    IN <<<<iv[1], iv[2]>>, RouteCoversRow(d, rects[k], r) /\ iv[3]>>],
                   LAMBDA p : p[2])
     IN SortAndMerge([k \in 1..Len(hits) |-> hits[k][1]])]

\* A case analysis that takes the right-partial case only when the interval
\* ends strictly right of the segment.
SplitCaseStrict(sl, sr, il, ir) ==
  IF il <= sl /\ ir >= sr THEN 1
  ELSE IF il > sl /\ ir > sr THEN 2
  ELSE IF ir < sr /\ il <= sl THEN 3
  ELSE IF il > sl /\ ir < sr THEN 4
  ELSE 0

\* The classification of an overlapping segment <sl,sr> and interval <il,ir>.
SplitCase(sl, sr, il, ir) ==
  IF il <= sl /\ ir >= sr THEN 1
  ELSE IF il > sl /\ ir >= sr THEN 2
  ELSE IF ir < sr /\ il <= sl THEN 3
  ELSE IF il > sl /\ ir < sr THEN 4
  ELSE 0

\* The loop over the segments of row r for one region interval <il,ir>; the
\* segments pushed during the loop are visited by it as well.
RECURSIVE SplitLoop(_, _, _, _, _, _)
SplitLoop(acc, r, reg, il, ir, s) ==
  IF acc.err \/ s > Len(acc.inRow[r]) THEN acc
  ELSE
    LET id == acc.inRow[r][s]
        seg == acc.segs[id]
        sl == seg.minX
        sr == seg.maxX
        n == Len(acc.segs)
        k == SplitCase(sl, sr, il, ir)
        push(a, sg) == [a EXCEPT !.segs = Append(@, sg),
                                 !.inRow[r] = Append(@, Len(a.segs) + 1)]
        next ==
          IF ir <= sl \/ il >= sr THEN acc
          ELSE IF k = 1 THEN [acc EXCEPT !.segs[id].regId = reg]
          ELSE IF k = 2 THEN
            push([acc EXCEPT !.segs[id].maxX = il], NewSeg(r, reg, il, sr))
          ELSE IF k = 3 THEN
            push([acc EXCEPT !.segs[id].minX = ir], NewSeg(r, reg, sl, ir))
          ELSE IF k = 4 THEN
            push(push([acc EXCEPT !.segs[id].maxX = il], NewSeg(r, reg, il, ir)),
                 NewSeg(r, seg.regId, ir, sr))
          ELSE [acc EXCEPT !.err = TRUE]
    IN SplitLoop(next, r, reg, il, ir, s + 1)

RECURSIVE SplitIntervals(_, _, _, _, _)
SplitIntervals(acc, r, reg, ivs, i) ==
  IF i > Len(ivs) THEN acc
  ELSE SplitIntervals(SplitLoop(acc, r, reg, ivs[i][1], ivs[i][2], 1), r, reg, ivs, i + 1)

RECURSIVE SplitRows(_, _, _, _, _)
SplitRows(d, acc, reg, intervals, r) ==
  IF r >= d.numRows THEN acc
  ELSE SplitRows(d, SplitIntervals(acc, r, reg, intervals[r], 1), reg, intervals, r + 1)

\* Second part of findSegments: regions 1..numRegions-1 slice the segments.
RECURSIVE SplitRegions(_, _, _)
SplitRegions(d, acc, reg) ==
  IF reg > Len(d.regions) THEN acc
  ELSE SplitRegions(d, SplitRows(d, acc, reg, findRegionIntervals(d, reg), 0), reg + 1)

\* Third part of findSegments: segment ends are moved onto the site grid.
SnapSegment(d, seg) ==
  LET originX == d.rowLeft[seg.rowId]
      sp == d.siteSpacing[seg.rowId]
      t0 == TruncDiv(seg.minX - originX, sp)
      ix0 == IF originX + t0 * sp < seg.minX THEN t0 + 1 ELSE t0
      ix1 == TruncDiv(seg.maxX - originX, sp)
  IN [seg EXCEPT !.minX = originX + ix0 * sp, !.maxX = originX + ix1 * sp]

\* A findSegments that keeps the segments of the previous build.
KeptSegments(prior) == prior

\* m_segments after the old segments have been deleted and erased.
ErasedSegments(prior) == <<>>

\* findSegments, run on a manager whose m_segments is prior: the new segments,
\* the per-row lists and whether the internal error 'Unexpected problem while
\* constructing segments' was raised.
findSegments(d, blk, prior) ==
  LET base == RowSegments(d, blk, 0,
                [segs |-> ErasedSegments(prior), inRow |-> [r \in Rows(d) |-> <<>>],
                 err |-> FALSE])
      split == SplitRegions(d, base, 1)
  IN [segs |-> [k \in 1..Len(split.segs) |-> SnapSegment(d, split.segs[k])],
      inRow |-> split.inRow,
      err |-> split.err]

(***************************************************************************)
(* The manager state handed through the operations below is a record s:    *)
(*   s.left, s.bottom  cell positions                                      *)
(*   s.segs            m_segments                                          *)
(*   s.cells           m_cellsInSeg                                        *)
(*   s.rev             m_reverseCellToSegs                                 *)
(*   s.ml              the staged move list (m_nMoved = Len(s.ml))         *)
(*   s.err             internalError() was called                          *)
(***************************************************************************)
Right(d, s, c) == s.left[c] + Width(d, c)
\* Twice the x-centre used by compareNodesX.
Center2(d, s, c) == 2 * s.left[c] + Width(d, c)

\* std::lower_bound(list, x, compareNodesX()): binary search for the first
\* cell whose centre is not less than x (x2 = 2*x); Len(list)+1 is end().
RECURSIVE LowerBoundLoop(_, _, _, _, _, _)
LowerBoundLoop(d, s, list, x2, first, len) ==
  IF len <= 0 THEN first
  ELSE LET half == len \div 2
           mid == first + half
       IN IF Center2(d, s, list[mid]) < x2
          THEN LowerBoundLoop(d, s, list, x2, mid + 1, len - half - 1)
          ELSE LowerBoundLoop(d, s, list, x2, first, half)

LowerBound(d, s, list, x2) == LowerBoundLoop(d, s, list, x2, 1, Len(list))

\* DetailedMgr::addCellToSegment
addCellToSegment(d, s, nd, seg) ==
  LET it == LowerBound(d, s, s.cells[seg], Center2(d, s, nd))
      present == \E i \in 1..Len(s.rev[nd]) : s.rev[nd][i] = seg
      full == Len(s.rev[nd]) >= getCellHeightInRows(d, nd)
  IN [s EXCEPT !.cells[seg] = InsertAt(@, it, nd),
               !.segs[seg].util = @ + Width(d, nd),
               !.rev[nd] = IF present \/ full THEN @ ELSE Append(@, seg),
               !.err = @ \/ present \/ full]

\* A removeCellFromSegment that leaves the utilization as it is.
removeCellFromSegmentKeepingUtil(d, s, nd, seg) ==
  LET it == Find(s.cells[seg], nd)
      its == Find(s.rev[nd], seg)
      missing == it > Len(s.cells[seg]) \/ its > Len(s.rev[nd])
  IN IF missing THEN [s EXCEPT !.err = TRUE]
     ELSE [s EXCEPT !.rev[nd] = RemoveAt(@, its),
                    !.cells[seg] = RemoveAt(@, it)]

\* DetailedMgr::removeCellFromSegment
removeCellFromSegment(d, s, nd, seg) ==
  LET it == Find(s.cells[seg], nd)
      its == Find(s.rev[nd], seg)
      missing == it > Len(s.cells[seg]) \/ its > Len(s.rev[nd])
  IN IF missing THEN [s EXCEPT !.err = TRUE]
     ELSE [s EXCEPT !.rev[nd] = RemoveAt(@, its),
                    !.cells[seg] = RemoveAt(@, it),
                    !.segs[seg].util = @ - Width(d, nd)]

\* DetailedMgr::removeAllCellsFromSegments
removeAllCellsFromSegments(s) ==
  [s EXCEPT !.cells = [k \in DOMAIN s.cells |-> <<>>],
            !.segs = [k \in DOMAIN s.segs |-> [s.segs[k] EXCEPT !.util = 0]],
            !.rev = [c \in DOMAIN s.rev |-> <<>>]]

\* DetailedMgr::setMaxDisplacement: the new limit from the argument (in rows)
\* and the limit in force.
setMaxDisplacement(d, cur, x) ==
  LET limit == 2 * Max(d.maxX - d.minX, d.maxY - d.minY)
  IN Min(IF x # 0 THEN x * d.rowHeight ELSE cur, limit)

\* The limit the constructor sets.
DefaultMaxDisp(d) == 2 * Max(d.maxX - d.minX, d.maxY - d.minY)

(***************************************************************************)
(* alignPos and the site-exact shift solver.                               *)
(***************************************************************************)
\* An alignPos that takes the site left of the target without looking at the
\* interval.
alignPosUnchecked(d, ndi, xi, xl, xrIn) ==
  LET originX == d.rowLeft[0]
      sp == d.siteSpacing[0]
  IN [ok |-> TRUE, x |-> originX + TruncDiv(xi - originX, sp) * sp]

\* DetailedMgr::alignPos: a site-aligned left edge in [xl, xr-width] near xi.
alignPos(d, ndi, xi, xl, xrIn) ==
  LET originX == d.rowLeft[0]
      sp == d.siteSpacing[0]
      xr == xrIn - Width(d, ndi)
      xp0 == Max(xl, Min(xr, xi))
      xp1 == originX + TruncDiv(xp0 - originX, sp) * sp
      xp == IF xp1 < xl THEN xp1 + sp
            ELSE IF xp1 > xr THEN xp1 - sp
            ELSE xp1
      ok == ~(xp < xl \/ xp > xr)
  IN [ok |-> ok, x |-> IF ok THEN xp ELSE xi]

\* std::numeric_limits<double>::max() in the cost tables: adding to it leaves
\* it unchanged and nothing is smaller than it.
Inf == -1
CostLess(a, b) == a # Inf /\ (b = Inf \/ a < b)
CostPlus(a, b) == IF a = Inf THEN Inf ELSE a + b

RECURSIVE SumSeq(_, _, _)
SumSeq(f, lo, hi) == IF lo > hi THEN 0 ELSE f[lo] + SumSeq(f, lo + 1, hi)

\* DetailedMgr::shift: [ok, pos] with pos the returned posLeft.
shift(d, cells, targetLeft, posLeft, leftLimit, rightLimit, rowId) ==
  LET originX == d.rowLeft[rowId]
      sp == d.siteSpacing[rowId]
      siteWidth == d.siteWidth[rowId]
      ncells == Len(cells)
      t0 == TruncDiv(leftLimit - originX, sp)
      i0 == IF originX + t0 * sp < leftLimit THEN t0 + 1 ELSE t0
      t1 == TruncDiv(rightLimit - originX, sp)
      i1 == IF originX + t1 * sp + siteWidth >= rightLimit THEN t1 - 1 ELSE t1
      nsites == i1 - i0 + 1
      swid == [i \in 1..ncells |->
                 CeilDiv(Width(d, cells[i]) +
                         (IF i # ncells THEN getCellSpacing(d, cells[i], cells[i + 1]) ELSE 0),
                         sp)]
      rsites == SumSeq(swid, 1, ncells)
      site_l == [i \in 1..ncells |-> i0 + SumSeq(swid, 1, i - 1)]
      site_r == [i \in 1..ncells |-> i1 + 1 - SumSeq(swid, i, ncells)]
      cost(i, j) ==
        LET site_id == i0 + i - 1
        IN IF site_id < site_l[j] \/ site_id > site_r[j] THEN 0
           ELSE Abs(originX + site_id * sp - targetLeft[j])
      none == <<-1, -1>>
      tcost[i \in 0..Max(nsites, 0), j \in 0..ncells] ==
        IF j = 0 THEN [c |-> IF i = 0 THEN 0 ELSE Inf, prev |-> none]
        ELSE IF i = 0 THEN [c |-> Inf, prev |-> none]
        ELSE
          LET site_id == i0 + i - 1
              prev_wid == IF j - 1 = 0 THEN 1 ELSE swid[j - 1]
              curr_wid == swid[j]
              skipped == IF CostLess(tcost[i - 1, j].c, Inf)
                         THEN [c |-> tcost[i - 1, j].c, prev |-> <<i - 1, j>>]
                         ELSE [c |-> Inf, prev |-> none]
              ii == i - prev_wid
              usable == ~(ii < 0 \/ site_id + curr_wid - 1 > i1)
              used == IF usable THEN CostPlus(tcost[ii, j - 1].c, cost(i, j)) ELSE Inf
          IN IF usable /\ CostLess(used, skipped.c)
             THEN [c |-> used, prev |-> <<ii, j - 1>>]
             ELSE skipped
      RECURSIVE Back(_, _, _)
      Back(i, j, pos) ==
        IF i = -1 \/ j = -1 THEN [ok |-> FALSE, pos |-> posLeft]
        ELSE IF i = 0 /\ j = 0 THEN [ok |-> TRUE, pos |-> pos]
        ELSE LET p == tcost[i, j].prev
             IN Back(p[1], p[2],
                     IF j # p[2] /\ p[2] # -1
                     THEN [pos EXCEPT ![j] = originX + (i0 + i - 1) * sp]
                     ELSE pos)
  IN IF rsites > nsites \/ \E i \in 1..ncells : site_r[i] < site_l[i]
     THEN [ok |-> FALSE, pos |-> posLeft]
     ELSE Back(nsites, ncells, posLeft)

(***************************************************************************)
(* The move list.                                                          *)
(***************************************************************************)
\* m_moveLimit as set by the constructor.
m_moveLimit == 10

OrigLeft(d, nd) == d.cells[nd].origLeft
OrigBottom(d, nd) == d.cells[nd].origBottom

\* DetailedMgr::clearMoveList
clearMoveList(s) == [s EXCEPT !.ml = <<>>]

MoveEntry(nd, curLeft, curBottom, curSegs, newLeft, newBottom, newSegs) ==
  [node |-> nd, curLeft |-> curLeft, curBottom |-> curBottom, curSeg |-> curSegs,
   newLeft |-> newLeft, newBottom |-> newBottom, newSeg |-> newSegs]

\* An addToMoveList without the displacement test.
addToMoveListUnlimited(d, s, nd, curLeft, curBottom, curSeg, newLeft, newBottom, newSeg) ==
  IF Len(s.ml) >= m_moveLimit THEN [st |-> s, ok |-> FALSE]
  ELSE [st |-> [s EXCEPT !.ml = Append(@, MoveEntry(nd, curLeft, curBottom, <<curSeg>>,
                                                     newLeft, newBottom, <<newSeg>>))],
        ok |-> TRUE]

\* An addToMoveList that stages the entry whatever m_nMoved is.
addToMoveListUncapped(d, s, nd, curLeft, curBottom, curSeg, newLeft, newBottom, newSeg) ==
  IF Abs(newLeft - OrigLeft(d, nd)) > s.maxDispX
     \/ Abs(newBottom - OrigBottom(d, nd)) > s.maxDispY
  THEN [st |-> s, ok |-> FALSE]
  ELSE [st |-> [s EXCEPT !.ml = Append(@, MoveEntry(nd, curLeft, curBottom, <<curSeg>>,
                                                     newLeft, newBottom, <<newSeg>>))],
        ok |-> TRUE]

\* DetailedMgr::addToMoveList, single-segment overload.
addToMoveList(d, s, nd, curLeft, curBottom, curSeg, newLeft, newBottom, newSeg) ==
  IF Len(s.ml) >= m_moveLimit THEN [st |-> s, ok |-> FALSE]
  ELSE IF Abs(newLeft - OrigLeft(d, nd)) > s.maxDispX
          \/ Abs(newBottom - OrigBottom(d, nd)) > s.maxDispY
  THEN [st |-> s, ok |-> FALSE]
  ELSE [st |-> [s EXCEPT !.ml = Append(@, MoveEntry(nd, curLeft, curBottom, <<curSeg>>,
                                                     newLeft, newBottom, <<newSeg>>))],
        ok |-> TRUE]

\* A multi-segment addToMoveList with the displacement test of the
\* single-segment one.
addToMoveListSegsCapped(d, s, nd, curLeft, curBottom, curSegs, newLeft, newBottom, newSegs) ==
  IF Len(s.ml) >= m_moveLimit THEN [st |-> s, ok |-> FALSE]
  ELSE IF Abs(newLeft - OrigLeft(d, nd)) > s.maxDispX
          \/ Abs(newBottom - OrigBottom(d, nd)) > s.maxDispY
  THEN [st |-> s, ok |-> FALSE]
  ELSE [st |-> [s EXCEPT !.ml = Append(@, MoveEntry(nd, curLeft, curBottom, curSegs,
                                                     newLeft, newBottom, newSegs))],
        ok |-> TRUE]

\* DetailedMgr::addToMoveList, overload taking vectors of segments.
addToMoveListSegs(d, s, nd, curLeft, curBottom, curSegs, newLeft, newBottom, newSegs) ==
  IF Len(s.ml) >= m_moveLimit THEN [st |-> s, ok |-> FALSE]
  ELSE [st |-> [s EXCEPT !.ml = Append(@, MoveEntry(nd, curLeft, curBottom, curSegs,
                                                     newLeft, newBottom, newSegs))],
        ok |-> TRUE]

RECURSIVE RemoveFromAll(_, _, _, _, _)
RemoveFromAll(d, s, nd, segs, k) ==
  IF k > Len(segs) THEN s
  ELSE RemoveFromAll(d, removeCellFromSegment(d, s, nd, segs[k]), nd, segs, k + 1)

RECURSIVE AddToAll(_, _, _, _, _)
AddToAll(d, s, nd, segs, k) ==
  IF k > Len(segs) THEN s
  ELSE AddToAll(d, addCellToSegment(d, s, nd, segs[k]), nd, segs, k + 1)

\* An acceptMove iteration that forgets the new bottom of the cell.
AcceptEntryKeepingBottom(d, s, e) ==
  LET removed == RemoveFromAll(d, s, e.node, e.curSeg, 1)
      placed == [removed EXCEPT !.left[e.node] = e.newLeft]
  IN IF s.err THEN s
     ELSE IF removed.err THEN removed
     ELSE AddToAll(d, placed, e.node, e.newSeg, 1)

\* One iteration of the loop of acceptMove, for staged entry e.  A call of
\* internalError() ends the program, nothing after it is executed.
AcceptEntry(d, s, e) ==
  LET removed == RemoveFromAll(d, s, e.node, e.curSeg, 1)
      placed == [removed EXCEPT !.left[e.node] = e.newLeft,
                                !.bottom[e.node] = e.newBottom]
  IN IF s.err THEN s
     ELSE IF removed.err THEN removed
     ELSE AddToAll(d, placed, e.node, e.newSeg, 1)

RECURSIVE AcceptLoop(_, _, _)
AcceptLoop(d, s, i) ==
  IF i > Len(s.ml) THEN s
  ELSE AcceptLoop(d, AcceptEntry(d, s, s.ml[i]), i + 1)

\* DetailedMgr::acceptMove
acceptMove(d, s) == AcceptLoop(d, s, 1)

\* A rejectMove that leaves the first staged cell at its proposed position.
rejectMoveAfterApplying(s) ==
  IF Len(s.ml) = 0 THEN clearMoveList(s)
  ELSE [clearMoveList(s) EXCEPT !.left[s.ml[1].node] = s.ml[1].newLeft]

\* DetailedMgr::rejectMove
rejectMove(s) == clearMoveList(s)

(***************************************************************************)
(* Shifting neighbours out of the way of an inserted cell.                 *)
(***************************************************************************)
RECURSIVE shiftRightLoop(_, _, _, _, _, _, _)
shiftRightLoop(d, s, ndi, xjIn, sj, ndr, ix) ==
  LET n == Len(s.cells[sj])
      rj == s.segs[sj].rowId
      originX == d.rowLeft[rj]
      sp == d.siteSpacing[rj]
      x1 == xjIn + Width(d, ndi) + getCellSpacing(d, ndi, ndr)
      sx0 == originX + TruncDiv(x1 - originX, sp) * sp
      sx == IF x1 # sx0 /\ x1 > sx0 THEN sx0 + sp ELSE sx0
      xj == IF x1 # sx0 /\ x1 # sx /\ x1 < sx THEN sx ELSE x1
      a == addToMoveList(d, s, ndr, s.left[ndr], s.bottom[ndr], sj, xj, s.bottom[ndr], sj)
  IN IF ~(ix <= n /\ s.left[ndr] < xjIn + Width(d, ndi) + getCellSpacing(d, ndi, ndr))
     THEN [st |-> s, ok |-> TRUE]
     ELSE IF getCellHeightInRows(d, ndr) # 1 THEN [st |-> s, ok |-> FALSE]
     ELSE IF ~a.ok THEN [st |-> s, ok |-> FALSE]
     ELSE IF xj + Width(d, ndr) + getCellSpacing(d, ndr, NoCell) > s.segs[sj].maxX
     THEN [st |-> a.st, ok |-> FALSE]
     ELSE IF ix = n THEN [st |-> a.st, ok |-> TRUE]
     ELSE shiftRightLoop(d, a.st, ndr, xj, sj, s.cells[sj][ix + 1], ix + 1)

\* DetailedMgr::shiftRightHelper
shiftRightHelper(d, s, ndi, xj, sj, ndr) ==
  LET it == Find(s.cells[sj], ndr)
  IN IF it > Len(s.cells[sj]) THEN [st |-> s, ok |-> FALSE]
     ELSE shiftRightLoop(d, s, ndi, xj, sj, ndr, it)

RECURSIVE shiftLeftLoop(_, _, _, _, _, _, _)
shiftLeftLoop(d, s, ndi, xjIn, sj, ndl, ix) ==
  LET rj == s.segs[sj].rowId
      originX == d.rowLeft[rj]
      sp == d.siteSpacing[rj]
      x1 == xjIn - getCellSpacing(d, ndl, ndi) - Width(d, ndl)
      sx == originX + TruncDiv(x1 - originX, sp) * sp
      xj == IF x1 # sx /\ x1 > sx THEN sx ELSE x1
      a == addToMoveList(d, s, ndl, s.left[ndl], s.bottom[ndl], sj, xj, s.bottom[ndl], sj)
  IN IF ~(ix >= 1 /\ Right(d, s, ndl) + getCellSpacing(d, ndl, ndi) > xjIn)
     THEN [st |-> s, ok |-> TRUE]
     ELSE IF getCellHeightInRows(d, ndl) # 1 THEN [st |-> s, ok |-> FALSE]
     ELSE IF ~a.ok THEN [st |-> s, ok |-> FALSE]
     ELSE IF xj - getCellSpacing(d, NoCell, ndl) < s.segs[sj].minX
     THEN [st |-> a.st, ok |-> FALSE]
     ELSE IF ix = 1 THEN [st |-> a.st, ok |-> TRUE]
     ELSE shiftLeftLoop(d, a.st, ndl, xj, sj, s.cells[sj][ix - 1], ix - 1)

\* DetailedMgr::shiftLeftHelper
shiftLeftHelper(d, s, ndi, xj, sj, ndl) ==
  LET it == Find(s.cells[sj], ndl)
  IN IF it > Len(s.cells[sj]) THEN [st |-> s, ok |-> FALSE]
     ELSE shiftLeftLoop(d, s, ndi, xj, sj, ndl, it)

(***************************************************************************)
(* Proposals.  Each returns [st, ret]: the manager state with the staged   *)
(* list, and the boolean the code returns.                                 *)
(***************************************************************************)
Fail(s) == [st |-> s, ret |-> FALSE]
Done(a) == [st |-> a.st, ret |-> a.ok]
LeftOrMin(d, s, seg, nd) == IF nd = NoCell THEN s.segs[seg].minX ELSE Right(d, s, nd)
RightOrMax(d, s, seg, nd) == IF nd = NoCell THEN s.segs[seg].maxX ELSE s.left[nd]
getWidth(seg) == seg.maxX - seg.minX

\* A target y that is trusted as it comes.
TargetBottomTrusted(d, yj, rj) == yj

\* The correction the proposals make to the target y they are given: the
\* bottom of row rj is used whenever yj differs from it.
TargetBottom(d, yj, rj) == IF Abs(yj - RowBottom(d, rj)) # 0 THEN RowBottom(d, rj) ELSE yj

\* DetailedMgr::tryMove1: a single-height cell into another segment.
tryMove1(d, s0, ndi, xi, yi, si, xjIn, yjIn, sj) ==
  LET s == clearMoveList(s0)
      spanned == getCellHeightInRows(d, ndi)
  IN IF sj = si \/ sj = NoSeg \/ RegionId(d, ndi) # s.segs[sj].regId \/ spanned # 1
     THEN Fail(s)
     ELSE
       LET segPtr == s.segs[sj]
           yj == TargetBottom(d, yjIn, segPtr.rowId)
           list == s.cells[sj]
           it == LowerBound(d, s, list, 2 * xjIn)
           ndr == IF Len(list) = 0 \/ it > Len(list) THEN NoCell ELSE list[it]
           ndl == IF Len(list) = 0 THEN NoCell
                  ELSE IF it > Len(list) THEN list[Len(list)]
                  ELSE IF it # 1 THEN list[it - 1]
                  ELSE NoCell
           required == Width(d, ndi) + getCellSpacing(d, ndl, ndi) + getCellSpacing(d, ndi, ndr)
                       - (IF ndl # NoCell /\ ndr # NoCell THEN getCellSpacing(d, ndl, ndr) ELSE 0)
           lx == LeftOrMin(d, s, sj, ndl) + getCellSpacing(d, ndl, ndi)
           rx == RightOrMax(d, s, sj, ndr) - getCellSpacing(d, ndi, ndr)
           al == alignPos(d, ndi, xjIn, lx, rx)
           xj == al.x
           a == addToMoveList(d, s, ndi, s.left[ndi], s.bottom[ndi], si, xj, yj, sj)
           sr == IF ndr # NoCell THEN shiftRightHelper(d, a.st, ndi, xj, sj, ndr)
                 ELSE [st |-> a.st, ok |-> TRUE]
           sl == IF ndl # NoCell THEN shiftLeftHelper(d, sr.st, ndi, xj, sj, ndl)
                 ELSE [st |-> sr.st, ok |-> TRUE]
       IN IF required + segPtr.util > getWidth(segPtr) THEN Fail(s)
          ELSE IF ~al.ok THEN Fail(s)
          ELSE IF ~a.ok THEN Fail(s)
          ELSE IF ~sr.ok THEN Fail(sr.st)
          ELSE Done(sl)

\* DetailedMgr::tryMove2: a single-height cell within its own segment.
tryMove2(d, s0, ndi, xi, yi, si, xjIn, yjIn, sj) ==
  LET s == clearMoveList(s0)
      spanned == getCellHeightInRows(d, ndi)
  IN IF sj # si \/ sj = NoSeg \/ RegionId(d, ndi) # s.segs[sj].regId \/ spanned # 1
     THEN Fail(s)
     ELSE IF Len(s.cells[sj]) = 0 THEN Fail(s)
     ELSE
       LET yj == TargetBottom(d, yjIn, s.segs[sj].rowId)
           list == s.cells[sj]
           n == Len(s.cells[si])
           it == LowerBound(d, s, list, 2 * xjIn)
           ix_j == IF it > Len(list) THEN Len(list) ELSE it
           ndj == list[ix_j]
           prev == IF ix_j = 1 THEN NoCell ELSE list[ix_j - 1]
           next == IF ix_j = n THEN NoCell ELSE list[ix_j + 1]
           lx1 == LeftOrMin(d, s, sj, prev) + getCellSpacing(d, prev, ndi)
           rx1 == s.left[ndj] - getCellSpacing(d, ndi, ndj)
           lx2 == Right(d, s, ndj) + getCellSpacing(d, ndj, ndi)
           rx2 == RightOrMax(d, s, sj, next) - getCellSpacing(d, ndi, next)
           try(lx, rx) ==
             LET al == alignPos(d, ndi, xjIn, lx, rx)
             IN IF ~al.ok THEN Fail(s)
                ELSE Done(addToMoveList(d, s, ndi, s.left[ndi], s.bottom[ndi], si,
                                        al.x, yj, sj))
       IN IF Width(d, ndi) <= rx1 - lx1 THEN try(lx1, rx1)
          ELSE IF Width(d, ndi) <= rx2 - lx2 THEN try(lx2, rx2)
          ELSE Fail(s)

\* The segments tryMove3 picks for rows r..rt: in each row the first segment
\* of the cell's region whose range contains xj; it stops at the first row
\* without one.
RECURSIVE TargetSegs(_, _, _, _, _, _)
TargetSegs(d, s, ndi, xj, r, rt) ==
  IF r > rt THEN <<>>
  ELSE LET row == s.inRow[r]
           ok(k) == s.segs[row[k]].regId = RegionId(d, ndi)
                    /\ xj >= s.segs[row[k]].minX /\ xj <= s.segs[row[k]].maxX
       IN IF \E k \in 1..Len(row) : ok(k)
          THEN <<row[CHOOSE k \in 1..Len(row) : ok(k) /\ \A m \in 1..(k - 1) : ~ok(m)]>>
               \o TargetSegs(d, s, ndi, xj, r + 1, rt)
          ELSE <<>>

\* The gap tryMove3 finds around xj in one target segment:
\* [same, fits, lx, rx]; same = the neighbour found is the cell itself.  When
\* nothing lies right of xj and the last cell is the cell itself, the code
\* steps back from end() and so lands on the last cell again.
Gap3(d, s, ndi, xj, segId) ==
  LET list == s.cells[segId]
      n == Len(list)
      it == LowerBound(d, s, list, 2 * xj)
      skip(k) == IF list[k] # ndi THEN list[k]
                 ELSE IF k # 1 THEN list[k - 1]
                 ELSE NoCell
      lft == IF n = 0 THEN NoCell
             ELSE IF it > n THEN list[n]
             ELSE IF it # 1 THEN skip(it - 1)
             ELSE NoCell
      rite == IF n = 0 \/ it > n THEN NoCell ELSE list[it]
      lx == LeftOrMin(d, s, segId, lft) + getCellSpacing(d, lft, ndi)
      rx == RightOrMax(d, s, segId, rite) - getCellSpacing(d, ndi, rite)
  IN [same |-> ndi = lft \/ ndi = rite,
      fits |-> Width(d, ndi) <= rx - lx,
      lx |-> lx, rx |-> rx]

RECURSIVE MaxOf(_, _)
MaxOf(f, k) == IF k = 1 THEN f[1] ELSE Max(f[k], MaxOf(f, k - 1))
RECURSIVE MinOf(_, _)
MinOf(f, k) == IF k = 1 THEN f[1] ELSE Min(f[k], MinOf(f, k - 1))

\* The lowest row tryMove3 may use as the bottom row, counted down from the
\* row of the target segment.
RECURSIVE LowerRb(_, _, _)
LowerRb(d, rb, spanned) == IF rb + spanned >= d.numRows THEN LowerRb(d, rb - 1, spanned) ELSE rb

\* DetailedMgr::tryMove3: a multi-height cell into gaps of consecutive rows.
tryMove3(d, s0, ndi, xi, yi, si, xjIn, yjIn, sj) ==
  LET s == clearMoveList(s0)
      spanned == getCellHeightInRows(d, ndi)
  IN IF spanned <= 1 \/ spanned # Len(s.rev[ndi]) THEN Fail(s)
     ELSE
       LET rb == LowerRb(d, s.segs[sj].rowId, spanned)
           rt == rb + spanned - 1
           segs == TargetSegs(d, s, ndi, xjIn, rb, rt)
           gaps == [k \in 1..Len(segs) |-> Gap3(d, s, ndi, xjIn, segs[k])]
           xmin == MaxOf([k \in 1..Len(segs) |-> gaps[k].lx], Len(segs))
           xmax == MinOf([k \in 1..Len(segs) |-> gaps[k].rx], Len(segs))
           al == alignPos(d, ndi, xjIn, xmin, xmax)
           old_segs == s.rev[ndi]
       IN IF ~power_compatible(d, ndi, rb) THEN Fail(s)
          ELSE IF Len(segs) # spanned THEN Fail(s)
          ELSE IF \E k \in 1..Len(segs) : gaps[k].same \/ ~gaps[k].fits THEN Fail(s)
          ELSE IF ~(Width(d, ndi) <= xmax - xmin) THEN Fail(s)
          ELSE IF ~al.ok THEN Fail(s)
          ELSE Done(addToMoveListSegs(d, s, ndi, s.left[ndi], s.bottom[ndi], old_segs,
                                      al.x, RowBottom(d, rb), segs))

\* DetailedMgr::trySwap1: exchange a single-height cell with the cell found
\* near the target.
trySwap1(d, s0, ndi, xiIn, yi, si, xjIn, yj, sj) ==
  LET s == clearMoveList(s0)
      lj == s.cells[sj]
      li == s.cells[si]
      it == LowerBound(d, s, lj, 2 * xjIn)
      ndj == IF Len(lj) = 0 THEN NoCell
             ELSE IF it > Len(lj) THEN lj[Len(lj)]
             ELSE lj[it]
  IN IF ndj = ndi \/ ndj = NoCell THEN Fail(s)
     ELSE IF getCellHeightInRows(d, ndi) # 1 \/ getCellHeightInRows(d, ndj) # 1 THEN Fail(s)
     ELSE
       LET ix_i == Find(li, ndi)
           ix_j == Find(lj, ndj)
           adjacent == si = sj /\ (ix_i + 1 = ix_j \/ ix_j + 1 = ix_i)
           nxt(list, ix) == IF ix = Len(list) THEN NoCell ELSE list[ix + 1]
           prv(list, ix) == IF ix = 1 THEN NoCell ELSE list[ix - 1]
           stage(xi, xj) ==
             LET a == addToMoveList(d, s, ndi, s.left[ndi], s.bottom[ndi], si,
                                    xj, s.bottom[ndj], sj)
             IN IF ~a.ok THEN Fail(s)
                ELSE Done(addToMoveList(d, a.st, ndj, s.left[ndj], s.bottom[ndj], sj,
                                        xi, s.bottom[ndi], si))
       IN IF ~adjacent THEN
            LET rxi == RightOrMax(d, s, si, nxt(li, ix_i)) - getCellSpacing(d, ndj, nxt(li, ix_i))
                lxi == LeftOrMin(d, s, si, prv(li, ix_i)) + getCellSpacing(d, prv(li, ix_i), ndj)
                ali == alignPos(d, ndj, xiIn, lxi, rxi)
                rxj == RightOrMax(d, s, sj, nxt(lj, ix_j)) - getCellSpacing(d, ndi, nxt(lj, ix_j))
                lxj == LeftOrMin(d, s, sj, prv(lj, ix_j)) + getCellSpacing(d, prv(lj, ix_j), ndi)
                alj == alignPos(d, ndi, xjIn, lxj, rxj)
            IN IF Width(d, ndj) > rxi - lxi THEN Fail(s)
               ELSE IF ~ali.ok THEN Fail(s)
               ELSE IF Width(d, ndi) > rxj - lxj THEN Fail(s)
               ELSE IF ~alj.ok THEN Fail(s)
               ELSE stage(ali.x, alj.x)
          ELSE IF ix_i + 1 = ix_j THEN
            LET rx == RightOrMax(d, s, sj, nxt(lj, ix_j)) - getCellSpacing(d, ndi, nxt(lj, ix_j))
                lx == LeftOrMin(d, s, si, prv(li, ix_i)) + getCellSpacing(d, prv(li, ix_i), ndj)
                sh == shift(d, <<ndj, ndi>>, <<xiIn, xjIn>>, <<0, 0>>, lx, rx, s.segs[si].rowId)
            IN IF Width(d, ndj) + Width(d, ndi) + getCellSpacing(d, ndj, ndi) > rx - lx
               THEN Fail(s)
               ELSE IF ~sh.ok THEN Fail(s)
               ELSE stage(sh.pos[1], sh.pos[2])
          ELSE
            LET rx == RightOrMax(d, s, si, nxt(li, ix_i)) - getCellSpacing(d, ndj, nxt(li, ix_i))
                lx == LeftOrMin(d, s, sj, prv(lj, ix_j)) + getCellSpacing(d, prv(lj, ix_j), ndi)
                sh == shift(d, <<ndi, ndj>>, <<xjIn, xiIn>>, <<0, 0>>, lx, rx, s.segs[si].rowId)
            IN IF Width(d, ndi) + Width(d, ndj) + getCellSpacing(d, ndi, ndj) > rx - lx
               THEN Fail(s)
               ELSE IF ~sh.ok THEN Fail(s)
               ELSE stage(sh.pos[2], sh.pos[1])

(***************************************************************************)
(* Assigning cells to segments.                                            *)
(***************************************************************************)
\* A comparison that makes the row pruning three times as eager.
CostLeqTripled(a, b) == b = Inf \/ (a # Inf /\ 3 * a <= b)
CostLeq(a, b) == b = Inf \/ (a # Inf /\ a <= b)

\* A scan step of findClosestSegment without the region test.
ConsiderSegmentAnyRegion(d, s, nd, acc, curr, vert) ==
  LET seg == s.segs[curr]
      xx == Max(seg.minX, Min(seg.maxX - Width(d, nd), s.left[nd]))
      dist == Max(0, Abs(xx - s.left[nd])) + vert
      fits == Width(d, nd) <= seg.maxX - seg.minX
      a1 == IF acc.best1 = NoSeg \/ CostLess(dist, acc.dist1)
            THEN [acc EXCEPT !.best1 = curr, !.dist1 = dist]
            ELSE acc
  IN IF fits /\ (acc.best2 = NoSeg \/ CostLess(dist, acc.dist2))
     THEN [a1 EXCEPT !.best2 = curr, !.dist2 = dist]
     ELSE a1

\* The body shared by the three scanning loops of findClosestSegment: update
\* the closest segment (best1) and the closest wide-enough segment (best2).
ConsiderSegment(d, s, nd, acc, curr, vert) ==
  LET seg == s.segs[curr]
      x1 == seg.minX
      x2 == seg.maxX - Width(d, nd)
      xx == Max(x1, Min(x2, s.left[nd]))
      hori == Max(0, Abs(xx - s.left[nd]))
      closer1 == CostLess(hori + vert, acc.dist1)
      closer2 == CostLess(hori + vert, acc.dist2)
      fits == Width(d, nd) <= seg.maxX - seg.minX
      a1 == IF acc.best1 = NoSeg \/ closer1
            THEN [acc EXCEPT !.best1 = curr, !.dist1 = hori + vert]
            ELSE acc
  IN IF RegionId(d, nd) # seg.regId THEN acc
     ELSE IF fits /\ (acc.best2 = NoSeg \/ closer2)
     THEN [a1 EXCEPT !.best2 = curr, !.dist2 = hori + vert]
     ELSE a1

RECURSIVE ScanRow(_, _, _, _, _, _, _)
ScanRow(d, s, nd, acc, r, vert, k) ==
  IF k > Len(s.inRow[r]) THEN acc
  ELSE ScanRow(d, s, nd, ConsiderSegment(d, s, nd, acc, s.inRow[r][k], vert), r, vert, k + 1)

RECURSIVE ScanOffsets(_, _, _, _, _, _)
ScanOffsets(d, s, nd, acc, row, offset) ==
  IF offset > d.numRows THEN acc
  ELSE
    LET vert == offset * d.rowHeight
        below == row - offset
        above == row + offset
        worth(a) == CostLeq(vert, a.dist1) \/ CostLeq(vert, a.dist2)
        a1 == IF below >= 0 /\ worth(acc) THEN ScanRow(d, s, nd, acc, below, vert, 1) ELSE acc
        a2 == IF above <= d.numRows - 1 /\ worth(a1) THEN ScanRow(d, s, nd, a1, above, vert, 1)
              ELSE a1
    IN ScanOffsets(d, s, nd, a2, row, offset + 1)

\* DetailedMgr::findClosestSegment: a segment id or NoSeg.
findClosestSegment(d, s, nd) ==
  LET row == find_closest_row(d, s.bottom[nd])
      start == [best1 |-> NoSeg, dist1 |-> Inf, best2 |-> NoSeg, dist2 |-> Inf]
      acc == ScanOffsets(d, s, nd, ScanRow(d, s, nd, start, row, 0, 1), row, 1)
  IN IF acc.best2 # NoSeg THEN acc.best2 ELSE acc.best1

\* DetailedMgr::findClosestSpanOfSegmentsDfs: the stacks of segments, one per
\* row from the row of segPtr up to top, that pairwise share x-range.
RECURSIVE findClosestSpanOfSegmentsDfs(_, _, _, _, _, _)
findClosestSpanOfSegmentsDfs(s, segPtr, xmin, xmax, top, stack) ==
  LET st == Append(stack, segPtr)
      rowId == s.segs[segPtr].rowId
      above == s.inRow[rowId + 1]
      RECURSIVE Each(_)
      Each(k) ==
        IF k > Len(above) THEN <<>>
        ELSE LET sg == s.segs[above[k]]
                 overlap == Min(xmax, sg.maxX) - Max(xmin, sg.minX)
             IN (IF overlap > 0
                 THEN findClosestSpanOfSegmentsDfs(s, above[k], Max(xmin, sg.minX),
                                                   Min(xmax, sg.maxX), top, st)
                 ELSE <<>>) \o Each(k + 1)
  IN IF rowId < top THEN Each(1) ELSE <<st>>

\* The evaluation of one candidate span in findClosestSpanOfSegments.  The
\* distances are doubled so that the half widths stay integral.
ConsiderSpan(d, s, nd, acc, cand) ==
  LET n == Len(cand)
      regionsOkay == \A j \in 1..n : s.segs[cand[j]].regId = RegionId(d, nd)
      xmin == MaxOf([j \in 1..n |-> s.segs[cand[j]].minX], n)
      xmax == MinOf([j \in 1..n |-> s.segs[cand[j]].maxX], n)
      width == xmax - xmin
      ymin == RowBottom(d, s.segs[cand[n]].rowId)
      dy2 == 2 * Abs(s.bottom[nd] - ymin)
      ww == Min(Width(d, nd), width)
      lx2 == 2 * xmin + ww
      rx2 == 2 * xmax - ww
      xc2 == 2 * s.left[nd] + Width(d, nd)
      xx2 == Max(lx2, Min(rx2, xc2))
      dx2 == Abs(xc2 - xx2)
      a1 == IF Len(acc.best1) = 0 \/ CostLess(dx2 + dy2, acc.disp1)
            THEN [acc EXCEPT !.best1 = cand, !.disp1 = dx2 + dy2]
            ELSE acc
  IN IF ~regionsOkay THEN acc
     ELSE IF (Len(acc.best2) = 0 \/ CostLess(dx2 + dy2, acc.disp2)) /\ Width(d, nd) <= width
     THEN [a1 EXCEPT !.best2 = cand, !.disp2 = dx2 + dy2]
     ELSE a1

RECURSIVE ConsiderSpans(_, _, _, _, _, _)
ConsiderSpans(d, s, nd, acc, cands, i) ==
  IF i > Len(cands) THEN acc
  ELSE ConsiderSpans(d, s, nd, ConsiderSpan(d, s, nd, acc, cands[i]), cands, i + 1)

RECURSIVE SpanBottoms(_, _, _, _, _, _)
SpanBottoms(d, s, nd, acc, r, sb) ==
  LET spanned == getCellHeightInRows(d, nd)
      t == r + spanned - 1
  IN IF r >= d.numRows THEN acc
     ELSE IF ~power_compatible(d, nd, r) \/ t >= d.numRows \/ sb > Len(s.inRow[r])
     THEN SpanBottoms(d, s, nd, acc, r + 1, 1)
     ELSE LET segPtr == s.inRow[r][sb]
              cands == findClosestSpanOfSegmentsDfs(s, segPtr, s.segs[segPtr].minX,
                                                    s.segs[segPtr].maxX, t, <<>>)
          IN SpanBottoms(d, s, nd, ConsiderSpans(d, s, nd, acc, cands, 1), r, sb + 1)

\* DetailedMgr::findClosestSpanOfSegments: [ok, segments].
findClosestSpanOfSegments(d, s, nd) ==
  LET start == [best1 |-> <<>>, disp1 |-> Inf, best2 |-> <<>>, disp2 |-> Inf]
      acc == SpanBottoms(d, s, nd, start, 0, 1)
  IN IF getCellHeightInRows(d, nd) <= 1 THEN [ok |-> FALSE, segments |-> <<>>]
     ELSE IF Len(acc.best2) # 0 THEN [ok |-> TRUE, segments |-> acc.best2]
     ELSE IF Len(acc.best1) # 0 THEN [ok |-> TRUE, segments |-> acc.best1]
     ELSE [ok |-> FALSE, segments |-> <<>>]

\* An assignment that puts a multi-height cell on the bottom of the topmost
\* row of its span.
AssignCellAtTopRow(d, s, nd) ==
  LET f == findClosestSpanOfSegments(d, s, nd)
      segId == findClosestSegment(d, s, nd)
  IN IF getCellHeightInRows(d, nd) = 1
     THEN IF segId = NoSeg THEN [s EXCEPT !.err = TRUE]
          ELSE [addCellToSegment(d, s, nd, segId) EXCEPT
                  !.left[nd] = Max(s.segs[segId].minX,
                                   Min(s.segs[segId].maxX - Width(d, nd), s.left[nd])),
                  !.bottom[nd] = RowBottom(d, s.segs[segId].rowId)]
     ELSE IF ~f.ok THEN [s EXCEPT !.err = TRUE]
     ELSE [AddToAll(d, s, nd, f.segments, 1) EXCEPT
             !.bottom[nd] = RowBottom(d, s.segs[f.segments[Len(f.segments)]].rowId)]

\* The body of the loop of assignCellsToSegments for one cell.
AssignCell(d, s, nd) ==
  IF getCellHeightInRows(d, nd) = 1
  THEN LET segId == findClosestSegment(d, s, nd)
           added == addCellToSegment(d, s, nd, segId)
           x1 == s.segs[segId].minX
           x2 == s.segs[segId].maxX - Width(d, nd)
       IN IF segId = NoSeg THEN [s EXCEPT !.err = TRUE]
          ELSE IF added.err THEN added
          ELSE [added EXCEPT !.left[nd] = Max(x1, Min(x2, s.left[nd])),
                             !.bottom[nd] = RowBottom(d, s.segs[segId].rowId)]
  ELSE LET f == findClosestSpanOfSegments(d, s, nd)
           segments == f.segments
           n == Len(segments)
           xmin == MaxOf([j \in 1..n |-> s.segs[segments[j]].minX], n)
           xmax == MinOf([j \in 1..n |-> s.segs[segments[j]].maxX], n)
           added == AddToAll(d, s, nd, segments, 1)
       IN IF ~f.ok \/ n # getCellHeightInRows(d, nd) THEN [s EXCEPT !.err = TRUE]
          ELSE IF added.err THEN added
          ELSE [added EXCEPT !.left[nd] = Max(xmin, Min(xmax - Width(d, nd), s.left[nd])),
                             !.bottom[nd] = RowBottom(d, s.segs[segments[1]].rowId)]

RECURSIVE AssignLoop(_, _, _, _)
AssignLoop(d, s, nodes, i) ==
  IF i > Len(nodes) \/ s.err THEN s
  ELSE AssignLoop(d, AssignCell(d, s, nodes[i]), nodes, i + 1)

\* DetailedMgr::assignCellsToSegments
assignCellsToSegments(d, s, nodesToConsider) == AssignLoop(d, s, nodesToConsider, 1)

(***************************************************************************)
(* The designs the manager is run on.                                      *)
(***************************************************************************)
NumRows == 3
RowHeight == 2
RowWidth == 8
SiteSpacing == 2
\* The number of accepted moves and rebuilds a run is followed for.
MaxSteps == 2

NumSites == RowWidth \div SiteSpacing
Site(k) == k * SiteSpacing
RowY(r) == r * RowHeight

Cell(w, h, reg, x, y) ==
  [w |-> w, h |-> h, reg |-> reg, fixed |-> FALSE, padL |-> 0, padR |-> 0,
   pwr |-> 0..(NumRows - 1), origLeft |-> x, origBottom |-> y]

\* NumRows rows of RowHeight over [0, RowWidth); region 1 is the right half
\* of the top row.
Arch(cells) ==
  [numRows |-> NumRows, rowHeight |-> RowHeight,
   minX |-> 0, maxX |-> RowWidth, minY |-> 0, maxY |-> NumRows * RowHeight,
   rowLeft |-> [r \in 0..(NumRows - 1) |-> 0],
   rowRight |-> [r \in 0..(NumRows - 1) |-> RowWidth],
   siteSpacing |-> [r \in 0..(NumRows - 1) |-> SiteSpacing],
   siteWidth |-> [r \in 0..(NumRows - 1) |-> SiteSpacing],
   regions |-> << << [xmin |-> Site(NumSites \div 2), xmax |-> RowWidth,
                      ymin |-> RowY(NumRows - 1), ymax |-> RowY(NumRows)] >> >>,
   routeBlockages |-> <<>>,
   cells |-> cells]

\* A legal, site-aligned placement: cells 1 and 2 (two sites wide) share
\* row 0, cell 3 sits in its region, cell 4 is two rows high.
DesignLegal ==
  Arch(<<Cell(SiteSpacing, 1, 0, Site(0), RowY(0)),
         Cell(2 * SiteSpacing, 1, 0, Site(1), RowY(0)),
         Cell(SiteSpacing, 1, 1, Site(NumSites - 1), RowY(NumRows - 1)),
         Cell(SiteSpacing, 2, 0, Site(NumSites - 1), RowY(0))>>)

\* A global-placement result: cells 1 and 2 on the same spot, cell 3 outside
\* its region and off the rows, cell 4 off the site grid.
DesignRaw ==
  Arch(<<Cell(SiteSpacing, 1, 0, Site(1), RowY(1)),
         Cell(SiteSpacing, 1, 0, Site(1), RowY(1)),
         Cell(SiteSpacing, 1, 1, 1, RowY(1) + 1),
         Cell(SiteSpacing, 2, 0, RowWidth - SiteSpacing - 1, 1)>>)

\* Three equal cells of the default region on one spot of row 0.
DesignStack ==
  Arch(<<Cell(SiteSpacing, 1, 0, 1, RowY(0)),
         Cell(SiteSpacing, 1, 0, 1, RowY(0)),
         Cell(SiteSpacing, 1, 0, 1, RowY(0))>>)

\* A two-row cell of region 1, which covers one row only.
DesignNoChain ==
  Arch(<<Cell(SiteSpacing, 2, 1, Site(NumSites - 1), RowY(NumRows - 2))>>)

\* A cell of region 1 next to a fixed cell that covers all of region 1.
DesignNoSegment ==
  Arch(<<[Cell(RowWidth - Site(NumSites \div 2), 1, 0, Site(NumSites \div 2),
               RowY(NumRows - 1)) EXCEPT !.fixed = TRUE],
         Cell(SiteSpacing, 1, 1, Site(0), RowY(NumRows - 1))>>)

\* A cell at the right end of row 0, and a wide cell further right that
\* sticks out of the row.
DesignClamped ==
  Arch(<<Cell(SiteSpacing, 1, 0, RowWidth - SiteSpacing, RowY(0)),
         Cell(RowWidth - SiteSpacing, 1, 0, RowWidth - 1, RowY(0))>>)

\* Unlegalized placements: every cell anywhere, cell 1 also wider than the
\* part of the top row outside region 1, cell 3 (region 1) also wider than
\* its region.
RawDesigns ==
  {DesignStack, DesignNoChain, DesignNoSegment, DesignClamped} \cup
  { Arch(<<Cell(w1, 1, 0, p1[1], p1[2]),
           Cell(SiteSpacing, 1, 0, 1, 1),
           Cell(w3, 1, 1, p3[1], p3[2]),
           Cell(SiteSpacing, 2, 0, p4[1], p4[2])>>) :
      w1 \in {SiteSpacing, RowWidth - SiteSpacing},
      p1 \in {<<0, 0>>, <<1, 1>>, <<1, RowY(NumRows - 1)>>,
              <<RowWidth - 1, RowY(NumRows - 1)>>},
      w3 \in {SiteSpacing, RowWidth},
      p3 \in {<<0, 0>>, <<RowWidth - SiteSpacing, RowY(NumRows - 1)>>, <<1, RowY(1) + 1>>},
      p4 \in {<<0, 0>>, <<0, RowY(1)>>, <<SiteSpacing + 1, 1>>,
              <<RowWidth - 1, RowY(NumRows - 1)>>} }

Designs == {DesignLegal, DesignRaw}

\* The arguments callers pass to setMaxDisplacement (in rows; 0 = keep).
DispArgs == {<<0, 0>>, <<1, 1>>}
\* The target x-coordinates callers propose.
TargetsX == 0..RowWidth

Movable(d) == SetToSeq({c \in Cells(d) : ~d.cells[c].fixed})

(***************************************************************************)
(* State machine.                                                          *)
(***************************************************************************)
Mgr ==
  [left |-> left, bottom |-> bottom, segs |-> m_segments, inRow |-> m_segsInRow,
   cells |-> m_cellsInSeg, rev |-> m_reverseCellToSegs, ml |-> moveList,
   maxDispX |-> m_maxDispX, maxDispY |-> m_maxDispY, err |-> FALSE]

\* The manager state s becomes the next state; a raised internalError ends
\* the process where it stands.
Install(s, nextPc, op, r, n) ==
  IF s.err
  THEN /\ halted' = TRUE
       /\ pc' = "halted"
       /\ lastOp' = op
       /\ ret' = FALSE
       /\ UNCHANGED <<design, left, bottom, m_blockages, m_segments, m_segsInRow,
                      m_cellsInSeg, m_reverseCellToSegs, m_maxDispX, m_maxDispY, moveList,
                      steps>>
  ELSE /\ left' = s.left
       /\ bottom' = s.bottom
       /\ m_segments' = s.segs
       /\ m_segsInRow' = s.inRow
       /\ m_cellsInSeg' = s.cells
       /\ m_reverseCellToSegs' = s.rev
       /\ moveList' = s.ml
       /\ m_maxDispX' = s.maxDispX
       /\ m_maxDispY' = s.maxDispY
       /\ pc' = nextPc
       /\ lastOp' = op
       /\ ret' = r
       /\ steps' = n
       /\ UNCHANGED <<design, m_blockages, halted>>

\* The state after the constructor.
Init ==
  /\ design \in Designs
  /\ left = [c \in Cells(design) |-> design.cells[c].origLeft]
  /\ bottom = [c \in Cells(design) |-> design.cells[c].origBottom]
  /\ m_blockages = [r \in Rows(design) |-> <<>>]
  /\ m_segments = <<>>
  /\ m_segsInRow = [r \in Rows(design) |-> <<>>]
  /\ m_cellsInSeg = <<>>
  /\ m_reverseCellToSegs = [c \in Cells(design) |-> <<>>]
  /\ m_maxDispX = DefaultMaxDisp(design)
  /\ m_maxDispY = DefaultMaxDisp(design)
  /\ moveList = <<>>
  /\ pc = "constructed"
  /\ lastOp = "constructor"
  /\ ret = FALSE
  /\ halted = FALSE
  /\ steps = 0

SetMaxDisplacement ==
  /\ pc = "constructed"
  /\ lastOp = "constructor"
  /\ \E a \in DispArgs :
       Install([Mgr EXCEPT !.maxDispX = setMaxDisplacement(design, m_maxDispX, a[1]),
                           !.maxDispY = setMaxDisplacement(design, m_maxDispY, a[2])],
               "constructed", "setMaxDisplacement", FALSE, steps)

\* The rev entries left behind by findSegments point to deleted segments: the
\* allocator may have handed the same addresses to the new segments (alias)
\* or not.
StaleRev(rev, nsegs, alias) ==
  [c \in DOMAIN rev |->
     [k \in 1..Len(rev[c]) |-> IF alias /\ rev[c][k] \in 1..nsegs THEN rev[c][k] ELSE Dangling]]

\* findBlockages followed by findSegments, as the callers build the segments.
Build ==
  /\ pc \in {"constructed", "built", "idle"}
  /\ pc = "idle" => steps < MaxSteps
  /\ \E alias \in BOOLEAN :
       LET blk == findBlockages(design, left, bottom, FALSE)
           f == findSegments(design, blk, m_segments)
           assigned == \E c \in Cells(design) : Len(m_reverseCellToSegs[c]) > 0
       IN /\ (~assigned => alias)
          /\ m_blockages' = blk
          /\ m_segments' = f.segs
          /\ m_segsInRow' = f.inRow
          /\ m_cellsInSeg' = [k \in 1..Len(f.segs) |-> <<>>]
          /\ m_reverseCellToSegs' = StaleRev(m_reverseCellToSegs, Len(f.segs), alias)
          /\ halted' = f.err
          /\ pc' = IF f.err THEN "halted" ELSE IF assigned THEN "stale" ELSE "built"
          /\ lastOp' = "findSegments"
          /\ ret' = FALSE
          /\ steps' = IF assigned THEN steps + 1 ELSE steps
          /\ UNCHANGED <<design, left, bottom, m_maxDispX, m_maxDispY, moveList>>

Assign ==
  /\ pc \in {"built", "stale"}
  /\ Install(assignCellsToSegments(design, Mgr, Movable(design)), "idle", "assign", FALSE, steps)

RemoveAllCellsFromSegments ==
  /\ pc \in {"idle", "stale"}
  /\ pc = "idle" => steps < MaxSteps
  /\ Install(removeAllCellsFromSegments(Mgr), "built", "removeAll", FALSE,
             IF pc = "idle" THEN steps + 1 ELSE steps)

\* What a caller passes for a cell it wants to move: the cell and its
\* segment, and a target position and segment.
ProposalArgs ==
  {[ndi |-> c, si |-> m_reverseCellToSegs[c][1], xj |-> x, sj |-> t] :
     c \in {n \in Cells(design) : Len(m_reverseCellToSegs[n]) > 0},
     x \in TargetsX,
     t \in 1..Len(m_segments)}

\* The target y that goes with target x in segment sj: a point of the row of
\* sj, on the bottom of the row or above it.
TargetY(sj, x) == RowBottom(design, m_segments[sj].rowId) + (x % RowHeight)

TryMove1 ==
  /\ pc = "idle"
  /\ \E a \in ProposalArgs :
       LET p == tryMove1(design, Mgr, a.ndi, left[a.ndi], bottom[a.ndi], a.si,
                         a.xj, TargetY(a.sj, a.xj), a.sj)
       IN Install(p.st, "proposed", "tryMove1", p.ret, steps)

TryMove2 ==
  /\ pc = "idle"
  /\ \E a \in ProposalArgs :
       LET p == tryMove2(design, Mgr, a.ndi, left[a.ndi], bottom[a.ndi], a.si,
                         a.xj, TargetY(a.sj, a.xj), a.sj)
       IN Install(p.st, "proposed", "tryMove2", p.ret, steps)

TryMove3 ==
  /\ pc = "idle"
  /\ \E a \in ProposalArgs :
       LET p == tryMove3(design, Mgr, a.ndi, left[a.ndi], bottom[a.ndi], a.si,
                         a.xj, TargetY(a.sj, a.xj), a.sj)
       IN Install(p.st, "proposed", "tryMove3", p.ret, steps)

TrySwap1 ==
  /\ pc = "idle"
  /\ \E a \in ProposalArgs :
       LET p == trySwap1(design, Mgr, a.ndi, left[a.ndi], bottom[a.ndi], a.si,
                         a.xj, TargetY(a.sj, a.xj), a.sj)
       IN Install(p.st, "proposed", "trySwap1", p.ret, steps)

AcceptMove ==
  /\ pc = "proposed"
  /\ ret
  /\ steps < MaxSteps
  /\ Install(acceptMove(design, Mgr), "idle", "acceptMove", ret, steps + 1)

RejectMove ==
  /\ pc = "proposed"
  /\ Install(rejectMove(Mgr), "idle", "rejectMove", ret, steps)

Next ==
  \/ SetMaxDisplacement
  \/ Build
  \/ Assign
  \/ RemoveAllCellsFromSegments
  \/ TryMove1
  \/ TryMove2
  \/ TryMove3
  \/ TrySwap1
  \/ AcceptMove
  \/ RejectMove

Spec == Init /\ [][Next]_vars

\* Building and assigning only, from unlegalized placements.
InitAssign ==
  /\ design \in RawDesigns
  /\ left = [c \in Cells(design) |-> design.cells[c].origLeft]
  /\ bottom = [c \in Cells(design) |-> design.cells[c].origBottom]
  /\ m_blockages = [r \in Rows(design) |-> <<>>]
  /\ m_segments = <<>>
  /\ m_segsInRow = [r \in Rows(design) |-> <<>>]
  /\ m_cellsInSeg = <<>>
  /\ m_reverseCellToSegs = [c \in Cells(design) |-> <<>>]
  /\ m_maxDispX = DefaultMaxDisp(design)
  /\ m_maxDispY = DefaultMaxDisp(design)
  /\ moveList = <<>>
  /\ pc = "constructed"
  /\ lastOp = "constructor"
  /\ ret = FALSE
  /\ halted = FALSE
  /\ steps = 0

NextAssign ==
  \/ Build
  \/ Assign
  \/ RemoveAllCellsFromSegments

SpecAssign == InitAssign /\ [][NextAssign]_vars

\* A floorplan wide enough for one more cell than the move list can hold,
\* and one free site: LimitCells single-site cells fill row 0 from the left,
\* a further single-site cell and a double-height cell stand in row 1.
LimitCells == m_moveLimit + 1
LimitWidth == (LimitCells + 1) * SiteSpacing

WideArch(cells) ==
  [Arch(cells) EXCEPT
     !.maxX = LimitWidth,
     !.rowRight = [r \in 0..(NumRows - 1) |-> LimitWidth],
     !.regions = << << [xmin |-> Site(NumSites), xmax |-> LimitWidth,
                        ymin |-> RowY(NumRows - 1), ymax |-> RowY(NumRows)] >> >>]

DesignLimit ==
  WideArch([c \in 1..(LimitCells + 2) |->
              IF c <= LimitCells THEN Cell(SiteSpacing, 1, 0, Site(c - 1), RowY(0))
              ELSE IF c = LimitCells + 1 THEN Cell(SiteSpacing, 1, 0, Site(0), RowY(1))
              ELSE Cell(SiteSpacing, 2, 0, Site(1), RowY(1))])

\* Callers that compose a move list themselves: addToMoveList (both
\* overloads) and the shift helpers are called one after the other without
\* clearMoveList in between.
InitMoveList ==
  /\ design = DesignLimit
  /\ left = [c \in Cells(design) |-> design.cells[c].origLeft]
  /\ bottom = [c \in Cells(design) |-> design.cells[c].origBottom]
  /\ m_blockages = [r \in Rows(design) |-> <<>>]
  /\ m_segments = <<>>
  /\ m_segsInRow = [r \in Rows(design) |-> <<>>]
  /\ m_cellsInSeg = <<>>
  /\ m_reverseCellToSegs = [c \in Cells(design) |-> <<>>]
  /\ m_maxDispX = DefaultMaxDisp(design)
  /\ m_maxDispY = DefaultMaxDisp(design)
  /\ moveList = <<>>
  /\ pc = "constructed"
  /\ lastOp = "constructor"
  /\ ret = FALSE
  /\ halted = FALSE
  /\ steps = 0

\* The callers go through the cells in the order of their ids and stage no
\* cell twice: the cells still to be staged.
Unstaged ==
  {c \in Cells(design) : \A i \in 1..Len(moveList) : moveList[i].node < c}

\* The assigned single-height cells.
SingleCells ==
  {c \in Cells(design) :
     getCellHeightInRows(design, c) = 1 /\ Len(m_reverseCellToSegs[c]) = 1}

\* addToMoveList(nd, ...), single-segment overload: the next cell in line is
\* staged for the position it has.
AddToMoveList ==
  /\ pc = "idle"
  /\ \E nd \in SingleCells \cap Unstaged :
       LET sg == m_reverseCellToSegs[nd][1]
           a == addToMoveList(design, Mgr, nd, left[nd], bottom[nd], sg,
                              left[nd], bottom[nd], sg)
       IN /\ \A c \in SingleCells \cap Unstaged : nd <= c
          /\ Install(a.st, "idle", "addToMoveList", a.ok, steps)

\* addToMoveList(nd, ...), overload with segment vectors, for a multi-height
\* cell.
AddToMoveListSegs ==
  /\ pc = "idle"
  /\ \E nd \in {c \in Unstaged : Len(m_reverseCellToSegs[c]) > 1} :
       LET a == addToMoveListSegs(design, Mgr, nd, left[nd], bottom[nd],
                                  m_reverseCellToSegs[nd], left[nd], bottom[nd],
                                  m_reverseCellToSegs[nd])
       IN Install(a.st, "idle", "addToMoveListSegs", a.ok, steps)

\* shiftRightHelper(ndi, xj, sj, ndr) for the cell ndi of row 1 that is to
\* take the place of ndr in row 0, so that ndr has to move.
ShiftRightHelper ==
  /\ pc = "idle"
  /\ \E ndr \in SingleCells \cap Unstaged :
       LET ndi == LimitCells + 1
           a == shiftRightHelper(design, Mgr, ndi, left[ndr],
                                 m_reverseCellToSegs[ndr][1], ndr)
       IN /\ ndr # ndi
          /\ Install(a.st, "idle", "shiftRightHelper", a.ok, steps)

\* shiftLeftHelper(ndi, xj, sj, ndl) for the cell ndi of row 1 that is to
\* take the place of ndl in row 0, so that ndl has to move.
ShiftLeftHelper ==
  /\ pc = "idle"
  /\ \E ndl \in SingleCells \cap Unstaged :
       LET ndi == LimitCells + 1
           a == shiftLeftHelper(design, Mgr, ndi, left[ndl],
                                m_reverseCellToSegs[ndl][1], ndl)
       IN /\ ndl # ndi
          /\ Install(a.st, "idle", "shiftLeftHelper", a.ok, steps)

NextMoveList ==
  \/ Build
  \/ Assign
  \/ AddToMoveList
  \/ AddToMoveListSegs
  \/ ShiftRightHelper
  \/ ShiftLeftHelper

SpecMoveList == InitMoveList /\ [][NextMoveList]_vars

\* A fixed cell with the same padding on both sides.
FixedCell(w, h, x, y, pad) ==
  [Cell(w, h, 0, x, y) EXCEPT !.fixed = TRUE, !.padL = pad, !.padR = pad]

\* A region rectangle over the rows r1..r2-1.
Rect(x1, x2, r1, r2) == [xmin |-> x1, xmax |-> x2, ymin |-> RowY(r1), ymax |-> RowY(r2)]

\* The fence regions of the floorplans the segments are built for: none, the
\* right half of the top row, a stretch inside rows 0 and 1 that starts off
\* the site grid, and two regions at the two ends of row 0.
RegionSets ==
  { <<>>,
    << <<Rect(Site(NumSites \div 2), RowWidth, NumRows - 1, NumRows)>> >>,
    << <<Rect(Site(1) + 1, Site(NumSites - 1), 0, 2)>> >>,
    << <<Rect(0, Site(1), 0, 1)>>, <<Rect(Site(NumSites - 1), RowWidth, 0, 1)>> >> }

\* Floorplans with two fixed cells: one of any width, height, padding and
\* position, one of a site at an end of row 0.
BuildDesigns ==
  { [Arch(<<FixedCell(fw, fh, fx, fy, pad),
            FixedCell(SiteSpacing, 1, gx, RowY(0), 0)>>) EXCEPT !.regions = regs] :
      fw \in {1, SiteSpacing}, fh \in {1, 2}, fx \in 0..(RowWidth - 1),
      fy \in {RowY(0), RowY(0) + 1, RowY(1)}, pad \in {0, 1},
      gx \in {0, RowWidth - SiteSpacing}, regs \in RegionSets }

InitBuild ==
  /\ design \in BuildDesigns
  /\ left = [c \in Cells(design) |-> design.cells[c].origLeft]
  /\ bottom = [c \in Cells(design) |-> design.cells[c].origBottom]
  /\ m_blockages = [r \in Rows(design) |-> <<>>]
  /\ m_segments = <<>>
  /\ m_segsInRow = [r \in Rows(design) |-> <<>>]
  /\ m_cellsInSeg = <<>>
  /\ m_reverseCellToSegs = [c \in Cells(design) |-> <<>>]
  /\ m_maxDispX = DefaultMaxDisp(design)
  /\ m_maxDispY = DefaultMaxDisp(design)
  /\ moveList = <<>>
  /\ pc = "constructed"
  /\ lastOp = "constructor"
  /\ ret = FALSE
  /\ halted = FALSE
  /\ steps = 0

\* findBlockages and findSegments, once and again.
SpecBuild == InitBuild /\ [][Build]_vars

\* A movable cell with padding on its sides.
PadCell(w, padL, padR, x, y) ==
  [Cell(w, 1, 0, x, y) EXCEPT !.padL = padL, !.padR = padR]

\* Cells 1 and 2 side by side at the left end of row 0, cell 3 at the right
\* end of row 0 or of row 1, with every choice of padding.
SwapDesigns ==
  { Arch(<<PadCell(SiteSpacing, l1, r1, Site(0), RowY(0)),
           PadCell(w2, l2, r2, Site(1), RowY(0)),
           PadCell(SiteSpacing, l3, 0, Site(NumSites - 1), y3)>>) :
      l1 \in {0, 1}, r1 \in {0, 1}, w2 \in {SiteSpacing, 2 * SiteSpacing},
      l2 \in {0, 1}, r2 \in {0, 1}, l3 \in {0, 1}, y3 \in {RowY(0), RowY(1)} }

InitSwap ==
  /\ design \in SwapDesigns
  /\ left = [c \in Cells(design) |-> design.cells[c].origLeft]
  /\ bottom = [c \in Cells(design) |-> design.cells[c].origBottom]
  /\ m_blockages = [r \in Rows(design) |-> <<>>]
  /\ m_segments = <<>>
  /\ m_segsInRow = [r \in Rows(design) |-> <<>>]
  /\ m_cellsInSeg = <<>>
  /\ m_reverseCellToSegs = [c \in Cells(design) |-> <<>>]
  /\ m_maxDispX = DefaultMaxDisp(design)
  /\ m_maxDispY = DefaultMaxDisp(design)
  /\ moveList = <<>>
  /\ pc = "constructed"
  /\ lastOp = "constructor"
  /\ ret = FALSE
  /\ halted = FALSE
  /\ steps = 0

NextSwap ==
  \/ Build
  \/ Assign
  \/ TrySwap1
  \/ AcceptMove
  \/ RejectMove

\* Swapping only, over padded cells.
SpecSwap == InitSwap /\ [][NextSwap]_vars

NextCascade ==
  \/ Build
  \/ Assign
  \/ TryMove1
  \/ RejectMove

\* Proposals of moves to another segment, over padded cells.
SpecCascade == InitSwap /\ [][NextCascade]_vars

\* Padded cells: cell 1 at the right end of row 0; cell 2, two rows high, at
\* the left end of rows 0 and 1 and padded on its right or not; cell 3 at the
\* left end of row 2, padded on its left when cell 2 is not padded.
SpacingDesigns ==
  { Arch(<<PadCell(SiteSpacing, 0, 0, Site(NumSites - 1), RowY(0)),
           [Cell(SiteSpacing, 2, 0, Site(0), RowY(0)) EXCEPT !.padR = r2],
           PadCell(SiteSpacing, 1 - r2, 0, Site(0), RowY(2))>>) :
      r2 \in {0, 1} }

InitSpacing ==
  /\ design \in SpacingDesigns
  /\ left = [c \in Cells(design) |-> design.cells[c].origLeft]
  /\ bottom = [c \in Cells(design) |-> design.cells[c].origBottom]
  /\ m_blockages = [r \in Rows(design) |-> <<>>]
  /\ m_segments = <<>>
  /\ m_segsInRow = [r \in Rows(design) |-> <<>>]
  /\ m_cellsInSeg = <<>>
  /\ m_reverseCellToSegs = [c \in Cells(design) |-> <<>>]
  /\ m_maxDispX = DefaultMaxDisp(design)
  /\ m_maxDispY = DefaultMaxDisp(design)
  /\ moveList = <<>>
  /\ pc = "constructed"
  /\ lastOp = "constructor"
  /\ ret = FALSE
  /\ halted = FALSE
  /\ steps = 0

NextSpacing ==
  \/ Build
  \/ Assign
  \/ TryMove1
  \/ TryMove2
  \/ TryMove3
  \/ TrySwap1
  \/ AcceptMove
  \/ RejectMove

\* The move engine over padded cells.
SpecSpacing == InitSpacing /\ [][NextSpacing]_vars

\* Floorplans without cells and with one routing obstruction: any x-range,
\* a y-range that spans row 0, part of row 0, rows 0 and 1 or row 1 and part
\* of row 0, on any of three layers.
RouteDesigns ==
  { [Arch(<<>>) EXCEPT !.regions = <<>>,
                       !.routeBlockages = <<[xmin |-> x1, xmax |-> x2, ymin |-> y[1],
                                             ymax |-> y[2], layer |-> l]>>] :
      x1 \in 0..(RowWidth - 1), x2 \in 1..RowWidth,
      y \in {<<RowY(0), RowY(1)>>, <<RowY(0) + 1, RowY(1)>>, <<RowY(0), RowY(2)>>,
             <<RowY(0) + 1, RowY(2)>>},
      l \in 0..2 }

InitRoute ==
  /\ design \in {d \in RouteDesigns : d.routeBlockages[1].xmin < d.routeBlockages[1].xmax}
  /\ left = <<>>
  /\ bottom = <<>>
  /\ m_blockages = [r \in Rows(design) |-> <<>>]
  /\ m_segments = <<>>
  /\ m_segsInRow = [r \in Rows(design) |-> <<>>]
  /\ m_cellsInSeg = <<>>
  /\ m_reverseCellToSegs = <<>>
  /\ m_maxDispX = DefaultMaxDisp(design)
  /\ m_maxDispY = DefaultMaxDisp(design)
  /\ moveList = <<>>
  /\ pc = "constructed"
  /\ lastOp = "constructor"
  /\ ret = FALSE
  /\ halted = FALSE
  /\ steps = 0

\* findBlockages(true) followed by findSegments.
BuildWithRouteBlockages ==
  /\ pc = "constructed"
  /\ LET blk == findBlockages(design, left, bottom, TRUE)
         f == findSegments(design, blk, m_segments)
     IN /\ m_blockages' = blk
        /\ m_segments' = f.segs
        /\ m_segsInRow' = f.inRow
        /\ m_cellsInSeg' = [k \in 1..Len(f.segs) |-> <<>>]
        /\ halted' = f.err
        /\ pc' = IF f.err THEN "halted" ELSE "built"
        /\ lastOp' = "findBlockages"
        /\ ret' = FALSE
        /\ UNCHANGED <<design, left, bottom, m_reverseCellToSegs, m_maxDispX, m_maxDispY,
                       moveList, steps>>

SpecRoute == InitRoute /\ [][BuildWithRouteBlockages]_vars

\* The inputs of shift: one or two single-height cells of row 0, in order,
\* the original left edge of each being its target, with padding between
\* them.
ShiftDesigns ==
  { Arch(<<PadCell(w1, 0, 0, t1, RowY(0))>>) :
      w1 \in {SiteSpacing, 2 * SiteSpacing}, t1 \in 0..RowWidth } \cup
  { Arch(<<PadCell(w1, 0, r1, t1, RowY(0)), PadCell(w2, 0, 0, t2, RowY(0))>>) :
      w1 \in {SiteSpacing, 2 * SiteSpacing}, r1 \in {0, 1}, t1 \in 0..RowWidth,
      w2 \in {SiteSpacing, 2 * SiteSpacing}, t2 \in 0..RowWidth }

\* The limits callers pass: the ends of a segment or the edges of neighbours.
ShiftLimits ==
  {<<l, r>> \in (0..Site(1)) \X ((RowWidth - SiteSpacing)..RowWidth) : TRUE}

\* The cells wait in order in one segment [leftLimit, rightLimit) of row 0.
InitShift ==
  /\ design \in ShiftDesigns
  /\ left = [c \in Cells(design) |-> design.cells[c].origLeft]
  /\ bottom = [c \in Cells(design) |-> design.cells[c].origBottom]
  /\ m_blockages = [r \in Rows(design) |-> <<>>]
  /\ \E lim \in ShiftLimits :
       m_segments = <<[minX |-> lim[1], maxX |-> lim[2], rowId |-> 0, regId |-> 0,
                       util |-> 0]>>
  /\ m_segsInRow = [r \in Rows(design) |-> IF r = 0 THEN <<1>> ELSE <<>>]
  /\ m_cellsInSeg = <<[i \in 1..Len(design.cells) |-> i]>>
  /\ m_reverseCellToSegs = [c \in Cells(design) |-> <<1>>]
  /\ m_maxDispX = DefaultMaxDisp(design)
  /\ m_maxDispY = DefaultMaxDisp(design)
  /\ moveList = <<>>
  /\ pc = "constructed"
  /\ lastOp = "constructor"
  /\ ret = FALSE
  /\ halted = FALSE
  /\ steps = 0

\* shift(cells, targetLeft, posLeft, leftLimit, rightLimit, segId, rowId):
\* the returned posLeft becomes the cells' positions.
Shift ==
  /\ pc = "constructed"
  /\ LET sh == shift(design, m_cellsInSeg[1],
                     [i \in 1..Len(design.cells) |-> OrigLeft(design, i)], left,
                     m_segments[1].minX, m_segments[1].maxX, m_segments[1].rowId)
     IN Install([Mgr EXCEPT !.left = sh.pos], "shifted", "shift", sh.ok, steps)

SpecShift == InitShift /\ [][Shift]_vars

(***************************************************************************)
(* Vocabulary of the properties.                                           *)
(***************************************************************************)
Assigned == pc \in {"idle", "proposed"}
Proposals == {"tryMove1", "tryMove2", "tryMove3", "trySwap1"}
SegIds == 1..Len(m_segments)
InList(c, k) == \E i \in 1..Len(m_cellsInSeg[k]) : m_cellsInSeg[k][i] = c
CellRight(c) == left[c] + Width(design, c)

SortedByLeft(k) ==
  \A i, j \in 1..Len(m_cellsInSeg[k]) :
    i < j => left[m_cellsInSeg[k][i]] <= left[m_cellsInSeg[k][j]]
NonOverlapping(k) ==
  \A i, j \in 1..Len(m_cellsInSeg[k]) :
    i < j => CellRight(m_cellsInSeg[k][i]) <= left[m_cellsInSeg[k][j]]
InsideSegment(k) ==
  \A i \in 1..Len(m_cellsInSeg[k]) :
    /\ m_segments[k].minX <= left[m_cellsInSeg[k][i]]
    /\ CellRight(m_cellsInSeg[k][i]) <= m_segments[k].maxX
Legal == \A k \in SegIds : SortedByLeft(k) /\ NonOverlapping(k) /\ InsideSegment(k)
LegalNext == Legal'

RegionsRespected ==
  \A k \in SegIds : \A i \in 1..Len(m_cellsInSeg[k]) :
    RegionId(design, m_cellsInSeg[k][i]) = m_segments[k].regId

WithinLimits(c, x, y) ==
  /\ Abs(x - OrigLeft(design, c)) <= m_maxDispX
  /\ Abs(y - OrigBottom(design, c)) <= m_maxDispY

UtilOf(k) == SumSeq([i \in 1..Len(m_cellsInSeg[k]) |-> Width(design, m_cellsInSeg[k][i])],
                    1, Len(m_cellsInSeg[k]))

(***************************************************************************)
(* Properties.                                                             *)
(***************************************************************************)
\* C1: a proposal (tryMove1, tryMove2, tryMove3, trySwap1), whether it
\* succeeds or fails, and a rejectMove change no cell position, no segment
\* cell list, no segment utilization and no reverse-map entry.
C1_ProposeRejectFrame ==
  [][lastOp' \in Proposals \cup {"rejectMove"} =>
       UNCHANGED <<left, bottom, m_cellsInSeg, m_segments, m_reverseCellToSegs>>]_vars

\* A successful proposal has been rejected and every cell is where it was.
C1_Witness ==
  /\ lastOp = "rejectMove"
  /\ ret
  /\ steps = 0
  /\ design = DesignLegal
  /\ \A c \in Cells(design) : left[c] = OrigLeft(design, c)

\* C2: whenever a proposal has returned false the staged move list is empty.
C2_FailedProposalStagesNothing ==
  (pc = "proposed" /\ ~ret) => Len(moveList) = 0

\* C3: after acceptMove every staged cell is at its staged position, is in
\* the cell lists of exactly its staged new segments (once in each), has
\* exactly those segments in the reverse map, and the utilization of each
\* of these segments is the total width of the cells in its list.
C3_AcceptAppliesAll ==
  (lastOp = "acceptMove" /\ ~halted) =>
    \A i \in 1..Len(moveList) :
      LET e == moveList[i] IN
        /\ left[e.node] = e.newLeft
        /\ bottom[e.node] = e.newBottom
        /\ \A k \in SegIds : InList(e.node, k) <=> k \in Range(e.newSeg)
        /\ \A k \in Range(e.newSeg) :
             /\ Cardinality({j \in 1..Len(m_cellsInSeg[k]) : m_cellsInSeg[k][j] = e.node}) = 1
             /\ m_segments[k].util = UtilOf(k)
        /\ Range(m_reverseCellToSegs[e.node]) = Range(e.newSeg)
        /\ Len(m_reverseCellToSegs[e.node]) = Len(e.newSeg)

\* An accepted swap: two staged cells, each now in the other's segment.
C3_Witness ==
  /\ lastOp = "acceptMove"
  /\ ~halted
  /\ Len(moveList) = 2
  /\ moveList[1].newSeg # moveList[1].curSeg
  /\ left[moveList[1].node] # moveList[1].curLeft

\* C4: once cells are assigned, every segment's cell list is sorted by left
\* edge and its cells are pairwise non-overlapping.
C4_ListsSortedDisjoint ==
  (Assigned /\ ~halted) => \A k \in SegIds : SortedByLeft(k) /\ NonOverlapping(k)

\* C5: accepting a successful proposal in a legal state (every list sorted,
\* non-overlapping and inside its segment) gives a legal state.
C5_AcceptKeepsLegal ==
  [][(pc = "proposed" /\ ret /\ lastOp' = "acceptMove" /\ Legal) => LegalNext]_vars

\* A legal state reached by accepting a swap and then a move of a
\* multi-height cell or of a single-height cell.
C5_Witness ==
  /\ lastOp = "acceptMove"
  /\ design = DesignLegal
  /\ steps = MaxSteps
  /\ Legal
  /\ \E c \in Cells(design) : left[c] # OrigLeft(design, c) /\ bottom[c] # OrigBottom(design, c)

\* C6: a cell is in the cell list of a segment exactly when the segment is
\* in the cell's reverse-map entry, and the entry names segments that exist.
C6_MapsAgree ==
  ~halted =>
    \A c \in Cells(design) :
      /\ \A k \in SegIds : InList(c, k) <=> k \in Range(m_reverseCellToSegs[c])
      /\ Range(m_reverseCellToSegs[c]) \subseteq SegIds

\* C7: a reverse-map entry never holds more segments than the cell spans,
\* and once cells are assigned (and after every accepted move) it holds
\* exactly that many, in consecutive rows starting at the row of the cell's
\* bottom.
C7_SpanShape ==
  /\ \A c \in Cells(design) : Len(m_reverseCellToSegs[c]) <= getCellHeightInRows(design, c)
  /\ Assigned =>
       \A c \in Cells(design) :
         LET e == m_reverseCellToSegs[c]
             h == getCellHeightInRows(design, c)
         IN /\ Len(e) = h
            /\ \E rb \in Rows(design) :
                 /\ RowBottom(design, rb) = bottom[c]
                 /\ \A i \in 1..h : m_segments[e[i]].rowId = rb + i - 1

\* A multi-height cell has been moved by an accepted tryMove3.
C7_Witness ==
  /\ lastOp = "acceptMove"
  /\ pc = "idle"
  /\ \E i \in 1..Len(moveList) :
       /\ getCellHeightInRows(design, moveList[i].node) = 2
       /\ moveList[i].newLeft # moveList[i].curLeft
       /\ Len(m_reverseCellToSegs[moveList[i].node]) = 2

\* C8: after assignCellsToSegments every cell is in segments of its own
\* region only, wherever the cell was and however wide it is.
C8_AssignRespectsRegions ==
  (pc = "idle" /\ lastOp = "assign") => RegionsRespected

\* A region-1 cell as wide as the row, originally at the far corner from its
\* region, has been assigned to the segment of region 1 although every
\* segment of the default region was nearer or wide enough.
C8_Witness ==
  /\ pc = "idle"
  /\ lastOp = "assign"
  /\ \E c \in Cells(design) :
       /\ RegionId(design, c) = 1
       /\ Width(design, c) = RowWidth
       /\ OrigLeft(design, c) = 0
       /\ OrigBottom(design, c) = 0
       /\ \E k \in SegIds : InList(c, k) /\ m_segments[k].regId = 1

\* C9: while cells are assigned, every cell is in segments of its own
\* region only, also after accepted moves and swaps.
C9_MovesRespectRegions ==
  (Assigned /\ ~halted) => RegionsRespected

\* C10: every entry staged through the single-segment addToMoveList is
\* within m_maxDispX / m_maxDispY of the cell's original position, and after
\* acceptMove the single-height cells it moved are within these limits.
C10_DisplacementLimit ==
  \A i \in 1..Len(moveList) :
    LET e == moveList[i] IN
      getCellHeightInRows(design, e.node) = 1 =>
        /\ WithinLimits(e.node, e.newLeft, e.newBottom)
        /\ lastOp = "acceptMove" => WithinLimits(e.node, left[e.node], bottom[e.node])

\* Under a limit of one row height a swap has been accepted that moved a
\* cell exactly as far as the limit allows.
C10_Witness ==
  /\ lastOp = "acceptMove"
  /\ m_maxDispX = RowHeight
  /\ Len(moveList) = 2
  /\ \E i \in 1..Len(moveList) :
       Abs(left[moveList[i].node] - OrigLeft(design, moveList[i].node)) = m_maxDispX

StagingOps == {"addToMoveList", "addToMoveListSegs", "shiftRightHelper", "shiftLeftHelper"}

\* C11: the move list never holds more than m_moveLimit (10) entries; a call
\* of either addToMoveList overload or of a shift helper that has to stage a
\* cell, made when the list already holds m_moveLimit entries, returns false
\* and writes no entry.
C11_MoveLimit ==
  /\ [](Len(moveList) <= m_moveLimit)
  /\ [][(Len(moveList) = m_moveLimit /\ lastOp' \in StagingOps) =>
          (~ret' /\ moveList' = moveList)]_vars

\* addToMoveList has been refused on a full move list.
C11_Witness ==
  /\ lastOp = "addToMoveList"
  /\ ~ret
  /\ Len(moveList) = m_moveLimit

\* The left edge of cell c is a site boundary of row r.
OnSite(c, r) == (left[c] - design.rowLeft[r]) % design.siteSpacing[r] = 0

\* C12: while cells are assigned, the left edge of every cell lies on a site
\* boundary of every row the cell has a segment in, after
\* assignCellsToSegments as well as after accepted moves.
C12_SiteAligned ==
  (Assigned /\ ~halted) =>
    \A c \in Cells(design) : \A i \in 1..Len(m_reverseCellToSegs[c]) :
      OnSite(c, m_segments[m_reverseCellToSegs[c][i]].rowId)

\* The lowest row cell c has a segment in.
BottomRow(c) ==
  CHOOSE r \in {m_segments[m_reverseCellToSegs[c][i]].rowId : i \in 1..Len(m_reverseCellToSegs[c])} :
    \A i \in 1..Len(m_reverseCellToSegs[c]) : r <= m_segments[m_reverseCellToSegs[c][i]].rowId

\* C13: while cells are assigned, the bottom of every cell is the bottom of
\* the row of its lowest segment and its top is the top of the row that lies
\* height-in-rows - 1 above; accepted moves keep this whatever target y the
\* caller passed.
C13_RowAligned ==
  (Assigned /\ ~halted) =>
    \A c \in Cells(design) :
      Len(m_reverseCellToSegs[c]) > 0 =>
        /\ bottom[c] = RowBottom(design, BottomRow(c))
        /\ BottomRow(c) + getCellHeightInRows(design, c) - 1 \in Rows(design)
        /\ bottom[c] + Height(design, c) =
             RowTop(design, BottomRow(c) + getCellHeightInRows(design, c) - 1)

\* A single-height cell has been moved to another row by an accepted
\* tryMove1.
C13_Witness ==
  /\ lastOp = "acceptMove"
  /\ pc = "idle"
  /\ Len(moveList) = 1
  /\ getCellHeightInRows(design, moveList[1].node) = 1
  /\ moveList[1].newBottom # moveList[1].curBottom
  /\ bottom[moveList[1].node] = moveList[1].newBottom

\* The x-range of row r that cells may use.
RowLo(r) == Max(design.minX, design.rowLeft[r])
RowHi(r) == Min(design.maxX, design.rowRight[r])

\* [x, x+1) of row r lies under the footprint of a fixed cell, the footprint
\* being widened by the spacing the cell needs to nothing on either side.
Blocked(r, x) ==
  \E c \in Cells(design) :
    /\ design.cells[c].fixed
    /\ bottom[c] < RowTop(design, r)
    /\ bottom[c] + Height(design, c) > RowBottom(design, r)
    /\ left[c] - getCellSpacing(design, NoCell, c) <= x
    /\ x < left[c] + Width(design, c) + getCellSpacing(design, c, NoCell)

\* The maximal free intervals <<a, b>> of row r.
FreeRuns(r) ==
  { iv \in (RowLo(r)..RowHi(r)) \X (RowLo(r)..RowHi(r)) :
      /\ iv[1] < iv[2]
      /\ \A x \in iv[1]..(iv[2] - 1) : ~Blocked(r, x)
      /\ iv[1] = RowLo(r) \/ Blocked(r, iv[1] - 1)
      /\ iv[2] = RowHi(r) \/ Blocked(r, iv[2]) }

\* An interval of row r with its ends moved inward onto the site grid.
SnapInward(r, iv) ==
  << design.rowLeft[r] + CeilDiv(iv[1] - design.rowLeft[r], design.siteSpacing[r])
                           * design.siteSpacing[r],
     design.rowLeft[r] + FloorDiv(iv[2] - design.rowLeft[r], design.siteSpacing[r])
                           * design.siteSpacing[r] >>

SegmentsOfRow(r) ==
  {<<m_segments[m_segsInRow[r][k]].minX, m_segments[m_segsInRow[r][k]].maxX>> :
     k \in 1..Len(m_segsInRow[r])}

\* C14: without regions, the segments of every row after findBlockages and
\* findSegments are exactly the maximal free intervals of the row, each with
\* its ends moved inward onto the site grid, and none of them has zero or
\* negative width.
C14_SegmentsAreFreeIntervals ==
  (pc = "built" /\ design.regions = <<>>) =>
    \A r \in Rows(design) :
      /\ \A k \in 1..Len(m_segsInRow[r]) :
           m_segments[m_segsInRow[r][k]].maxX > m_segments[m_segsInRow[r][k]].minX
      /\ SegmentsOfRow(r) =
           {iv \in {SnapInward(r, f) : f \in FreeRuns(r)} : iv[2] > iv[1]}
      /\ Len(m_segsInRow[r]) = Cardinality(SegmentsOfRow(r))

\* Segment k lies inside / outside the interval iv.
SegInside(k, iv) == iv[1] <= m_segments[k].minX /\ m_segments[k].maxX <= iv[2]
SegOutside(k, iv) == m_segments[k].maxX <= iv[1] \/ m_segments[k].minX >= iv[2]
\* The merged intervals of region reg in row r.
RegionIntervals(reg, r) == Range(findRegionIntervals(design, reg)[r])

\* C15: after findSegments the segments of a row are pairwise disjoint, every
\* segment lies inside or outside every merged region interval of its row,
\* and its region id is r >= 1 exactly when it lies inside an interval of
\* region r, so that a segment outside all regions has region id 0.
C15_SegmentsRegionHomogeneous ==
  (pc = "built") =>
    \A r \in Rows(design) :
      /\ \A i, j \in 1..Len(m_segsInRow[r]) :
           i # j => \/ m_segments[m_segsInRow[r][i]].maxX <= m_segments[m_segsInRow[r][j]].minX
                    \/ m_segments[m_segsInRow[r][j]].maxX <= m_segments[m_segsInRow[r][i]].minX
      /\ \A i \in 1..Len(m_segsInRow[r]) :
           LET k == m_segsInRow[r][i] IN
             /\ m_segments[k].rowId = r
             /\ m_segments[k].regId \in 0..Len(design.regions)
             /\ \A reg \in 1..Len(design.regions) :
                  /\ \A iv \in RegionIntervals(reg, r) : SegInside(k, iv) \/ SegOutside(k, iv)
                  /\ m_segments[k].regId = reg <=>
                       \E iv \in RegionIntervals(reg, r) : SegInside(k, iv)

\* What identifies segment k: its id, row, region and ends.
SegmentKey(segs, k) == <<k, segs[k].rowId, segs[k].regId, segs[k].minX, segs[k].maxX>>

\* C16: findBlockages and findSegments run again on unchanged fixed cells and
\* regions give the same segments (id, row, region, minX, maxX), the same
\* per-row segment lists and the same blockages as the run before.
C16_BuildIdempotent ==
  [][(pc = "built" /\ lastOp = "findSegments" /\ lastOp' = "findSegments") =>
       /\ Len(m_segments') = Len(m_segments)
       /\ \A k \in 1..Len(m_segments) : SegmentKey(m_segments', k) = SegmentKey(m_segments, k)
       /\ m_segsInRow' = m_segsInRow
       /\ m_blockages' = m_blockages]_vars

\* Segments built from a floorplan with blockages and a region: some row has
\* a segment of the region between two segments of the default region.
C16_Witness ==
  /\ pc = "built"
  /\ lastOp = "findSegments"
  /\ \E r \in Rows(design) : \E i, j, k \in 1..Len(m_segsInRow[r]) :
       /\ m_segments[m_segsInRow[r][i]].regId = 0
       /\ m_segments[m_segsInRow[r][j]].regId = 1
       /\ m_segments[m_segsInRow[r][k]].regId = 0
       /\ m_segments[m_segsInRow[r][i]].maxX = m_segments[m_segsInRow[r][j]].minX
       /\ m_segments[m_segsInRow[r][j]].maxX = m_segments[m_segsInRow[r][k]].minX
       /\ m_blockages[r] # <<>>

\* Row r has a segment of the region of cell c whose x-range contains x.
HasSegmentAt(c, r, x) ==
  \E i \in 1..Len(m_segsInRow[r]) :
    /\ m_segments[m_segsInRow[r][i]].regId = RegionId(design, c)
    /\ m_segments[m_segsInRow[r][i]].minX <= x
    /\ x <= m_segments[m_segsInRow[r][i]].maxX

\* C17: for a cell of S > 1 rows and a target segment in row rb with rows
\* rb..rb+S-1 all in the floorplan, tryMove3 returns false when one of
\* these rows has no segment of the cell's region containing the target x,
\* and when it returns true the staged segments are in rows rb..rb+S-1, one
\* per row, with the new bottom on row rb.
C17_TryMove3RowRange ==
  (pc = "idle" /\ ~halted) =>
    \A a \in ProposalArgs :
      LET S == getCellHeightInRows(design, a.ndi)
          rb == m_segments[a.sj].rowId
          p == tryMove3(design, Mgr, a.ndi, left[a.ndi], bottom[a.ndi], a.si,
                        a.xj, TargetY(a.sj, a.xj), a.sj)
      IN (S > 1 /\ rb + S - 1 <= design.numRows - 1) =>
           /\ (\E r \in rb..(rb + S - 1) : ~HasSegmentAt(a.ndi, r, a.xj)) => ~p.ret
           /\ p.ret =>
                /\ Len(p.st.ml) = 1
                /\ p.st.ml[1].newBottom = RowBottom(design, rb)
                /\ Len(p.st.ml[1].newSeg) = S
                /\ \A i \in 1..S : m_segments[p.st.ml[1].newSeg[i]].rowId = rb + i - 1

\* The cell trySwap1 picks as the partner of a proposal: the first cell of
\* the target segment whose centre is not left of the target x, the last
\* cell when there is none.
SwapPartner(a) ==
  LET lj == m_cellsInSeg[a.sj]
      it == LowerBound(design, Mgr, lj, 2 * a.xj)
  IN IF Len(lj) = 0 THEN NoCell
     ELSE IF it > Len(lj) THEN lj[Len(lj)]
     ELSE lj[it]

\* The proposal a swaps two single-height cells that are consecutive in
\* one segment.
AdjacentSwap(a) ==
  LET ndj == SwapPartner(a)
      list == m_cellsInSeg[a.si]
  IN /\ a.si = a.sj
     /\ ndj # NoCell
     /\ ndj # a.ndi
     /\ getCellHeightInRows(design, a.ndi) = 1
     /\ getCellHeightInRows(design, ndj) = 1
     /\ Abs(Find(list, a.ndi) - Find(list, ndj)) = 1

\* C18: for two single-height cells consecutive in one segment, a trySwap1
\* that returns true followed by acceptMove reverses their order, keeps both
\* between the outer neighbours (or the segment ends) and leaves the required
\* spacing between them; when the widths plus the spacing exceed the span,
\* or shift fails, trySwap1 returns false with nothing staged and the
\* placement and the segments unchanged.
C18_AdjacentSwap ==
  (pc = "idle" /\ ~halted) =>
    \A a \in ProposalArgs :
      AdjacentSwap(a) =>
        LET ndj == SwapPartner(a)
            list == m_cellsInSeg[a.si]
            iFirst == Find(list, a.ndi) < Find(list, ndj)
            was1 == IF iFirst THEN a.ndi ELSE ndj
            was2 == IF iFirst THEN ndj ELSE a.ndi
            k == Find(list, was1)
            outerL == IF k = 1 THEN NoCell ELSE list[k - 1]
            outerR == IF k + 1 = Len(list) THEN NoCell ELSE list[k + 2]
            lo == IF outerL = NoCell THEN m_segments[a.si].minX
                  ELSE left[outerL] + Width(design, outerL)
            hi == IF outerR = NoCell THEN m_segments[a.si].maxX ELSE left[outerR]
            lx == lo + getCellSpacing(design, outerL, was2)
            rx == hi - getCellSpacing(design, was1, outerR)
            gap == getCellSpacing(design, was2, was1)
            sh == shift(design, <<was2, was1>>,
                        IF iFirst THEN <<left[a.ndi], a.xj>> ELSE <<a.xj, left[a.ndi]>>,
                        <<0, 0>>, lx, rx, m_segments[a.si].rowId)
            p == trySwap1(design, Mgr, a.ndi, left[a.ndi], bottom[a.ndi], a.si,
                          a.xj, TargetY(a.sj, a.xj), a.sj)
            t == acceptMove(design, p.st)
        IN /\ p.ret =>
                /\ Find(t.cells[a.si], was2) + 1 = Find(t.cells[a.si], was1)
                /\ lo <= t.left[was2]
                /\ t.left[was2] + Width(design, was2) + gap <= t.left[was1]
                /\ t.left[was1] + Width(design, was1) <= hi
           /\ (Width(design, was1) + Width(design, was2) + gap > rx - lx \/ ~sh.ok) =>
                (~p.ret /\ p.st = clearMoveList(Mgr))

\* An accepted first move has exchanged cells 1 and 2 of row 0, and some
\* further swap of an adjacent pair is refused.
C18_Witness ==
  /\ lastOp = "acceptMove"
  /\ steps = 1
  /\ ~halted
  /\ bottom[1] = bottom[2]
  /\ left[2] < left[1]
  /\ Find(m_cellsInSeg[m_reverseCellToSegs[1][1]], 2) + 1 =
       Find(m_cellsInSeg[m_reverseCellToSegs[1][1]], 1)
  /\ \E a \in ProposalArgs :
       /\ AdjacentSwap(a)
       /\ ~trySwap1(design, Mgr, a.ndi, left[a.ndi], bottom[a.ndi], a.si,
                    a.xj, TargetY(a.sj, a.xj), a.sj).ret

\* The site-aligned placements of the cells of segment 1 inside its limits
\* that keep the order of the cells and the width and spacing between them.
ShiftPlacements ==
  LET cells == m_cellsInSeg[1]
      n == Len(cells)
      seg == m_segments[1]
      grid == {design.rowLeft[seg.rowId] + k * design.siteSpacing[seg.rowId] : k \in 0..RowWidth}
  IN { q \in [1..n -> {x \in grid : seg.minX <= x /\ x < seg.maxX}] :
         /\ q[n] + Width(design, cells[n]) <= seg.maxX
         /\ \A i \in 1..(n - 1) :
              q[i] + Width(design, cells[i]) +
                getCellSpacing(design, cells[i], cells[i + 1]) <= q[i + 1] }

\* The sum of the distances of the positions q from the targets.
ShiftCost(q) ==
  SumSeq([i \in 1..Len(q) |-> Abs(q[i] - OrigLeft(design, m_cellsInSeg[1][i]))], 1, Len(q))

\* C19: when shift returns true, the returned positions are a site-aligned
\* placement inside the limits in the given order, and no such placement has
\* a smaller sum of distances to the targets.
C19_ShiftMinimizes ==
  (lastOp = "shift" /\ ret) =>
    /\ left \in ShiftPlacements
    /\ \A q \in ShiftPlacements : ShiftCost(left) <= ShiftCost(q)

\* What shift does achieve: a feasible placement whose first cell is at the
\* leftmost site of the limits.
ShiftFeasible ==
  (lastOp = "shift" /\ ret) =>
    /\ left \in ShiftPlacements
    /\ \A q \in ShiftPlacements : left[1] <= q[1]
    /\ \A q \in ShiftPlacements : q[1] = left[1] => ShiftCost(left) <= ShiftCost(q)

\* The cost findClosestSegment gives segment k for cell c at (x, y): the
\* distance from x to its clamp into the segment, plus the row offset from
\* the row closest to y times the row height.
SegmentCost(c, k, x, y) ==
  LET seg == m_segments[k]
      xx == Max(seg.minX, Min(seg.maxX - Width(design, c), x))
  IN Abs(xx - x) + Abs(seg.rowId - find_closest_row(design, y)) * design.rowHeight

\* The segments of the region of cell c, and those at least as wide as c.
Matching(c) == {k \in SegIds : m_segments[k].regId = RegionId(design, c)}
Fitting(c) == {k \in Matching(c) : Width(design, c) <= getWidth(m_segments[k])}

\* Segment k is one findClosestSegment may return for cell c at (x, y).
ClosestFor(c, k, x, y) ==
  LET pool == IF Fitting(c) # {} THEN Fitting(c) ELSE Matching(c)
  IN /\ k \in pool
     /\ \A j \in pool : SegmentCost(c, k, x, y) <= SegmentCost(c, j, x, y)

\* C20: the segment assignCellsToSegments gets from findClosestSegment for a
\* single-height cell has the region of the cell and the least cost, from
\* where the cell was, among the segments of that region wide enough for the
\* cell, or among all segments of that region when none is wide enough.
C20_ClosestSegment ==
  [][(lastOp' = "assign" /\ ~halted') =>
       \A c \in Cells(design) :
         getCellHeightInRows(design, c) = 1 =>
           /\ Len(m_reverseCellToSegs'[c]) = 1
           /\ ClosestFor(c, m_reverseCellToSegs'[c][1], left[c], bottom[c])]_vars

\* The first assignment has put a cell into a wide-enough segment although a
\* narrower segment of its region was strictly nearer, and has put another
\* cell into a segment too narrow for it, no segment of its region being wide
\* enough.
C20_Witness ==
  /\ lastOp = "assign"
  /\ ~halted
  /\ steps = 0
  /\ \E c \in Cells(design) :
       /\ getCellHeightInRows(design, c) = 1
       /\ m_reverseCellToSegs[c][1] \in Fitting(c)
       /\ \E j \in Matching(c) \ Fitting(c) :
            SegmentCost(c, j, OrigLeft(design, c), OrigBottom(design, c)) <
              SegmentCost(c, m_reverseCellToSegs[c][1], OrigLeft(design, c),
                          OrigBottom(design, c))
  /\ \E c \in Cells(design) :
       /\ getCellHeightInRows(design, c) = 1
       /\ Fitting(c) = {}
       /\ m_reverseCellToSegs[c][1] \in Matching(c)

\* The chains for cell c: one segment of the region of c in each of S
\* consecutive rows, from a power-compatible row upwards, with a non-empty
\* common x-interval.
ChainLo(ch) == MaxOf([i \in 1..Len(ch) |-> m_segments[ch[i]].minX], Len(ch))
ChainHi(ch) == MinOf([i \in 1..Len(ch) |-> m_segments[ch[i]].maxX], Len(ch))
Chains(c) ==
  LET S == getCellHeightInRows(design, c)
  IN { ch \in [1..S -> SegIds] :
         /\ power_compatible(design, c, m_segments[ch[1]].rowId)
         /\ \A i \in 1..S : /\ m_segments[ch[i]].regId = RegionId(design, c)
                            /\ m_segments[ch[i]].rowId = m_segments[ch[1]].rowId + i - 1
         /\ ChainHi(ch) > ChainLo(ch) }
FittingChains(c) == {ch \in Chains(c) : Width(design, c) <= ChainHi(ch) - ChainLo(ch)}

\* Twice dx + dy of chain ch for cell c at (x, y): dx from the centre of the
\* cell to its clamp into the common interval, dy from y to the bottom of the
\* bottom row of the chain.
ChainCost2(c, ch, x, y) ==
  LET ww == Min(Width(design, c), ChainHi(ch) - ChainLo(ch))
      xc2 == 2 * x + Width(design, c)
      xx2 == Max(2 * ChainLo(ch) + ww, Min(2 * ChainHi(ch) - ww, xc2))
  IN Abs(xc2 - xx2) + 2 * Abs(y - RowBottom(design, m_segments[ch[1]].rowId))

\* C21: the chain assignCellsToSegments gets from findClosestSpanOfSegments
\* for a multi-height cell is a chain for the cell of least dx + dy, dy taken
\* to the bottom row of the chain, among the chains that fit the cell, or
\* among all chains when none fits; a cell that sits on a chain that fits it
\* is not moved.
C21_ClosestSpan ==
  [][(lastOp' = "assign" /\ ~halted') =>
       \A c \in Cells(design) :
         getCellHeightInRows(design, c) > 1 =>
           LET pool == IF FittingChains(c) # {} THEN FittingChains(c) ELSE Chains(c)
               got == m_reverseCellToSegs'[c]
           IN /\ got \in pool
              /\ \A ch \in pool :
                   ChainCost2(c, got, left[c], bottom[c]) <=
                     ChainCost2(c, ch, left[c], bottom[c])
              /\ (\E ch \in FittingChains(c) :
                    ChainCost2(c, ch, left[c], bottom[c]) = 0) =>
                   (left'[c] = left[c] /\ bottom'[c] = bottom[c])]_vars

\* No segment can take some movable cell: no segment has the region of a
\* single-height cell, or no chain exists for a multi-height cell.
Infeasible ==
  \E c \in Cells(design) :
    /\ ~design.cells[c].fixed
    /\ IF getCellHeightInRows(design, c) = 1 THEN Matching(c) = {} ELSE Chains(c) = {}

\* C22: when no segment can take a cell, assignCellsToSegments comes back to
\* its caller with the placement, the cell lists and the reverse map as they
\* were, and the run goes on.
C22_InfeasibleAssignRecoverable ==
  [][(lastOp' = "assign" /\ Infeasible) =>
       /\ ~halted'
       /\ UNCHANGED <<left, bottom, m_cellsInSeg, m_reverseCellToSegs>>]_vars

\* C23: what tryMove3 returns and stages for a multi-height cell does not
\* depend on the displacement limits: it is the same under limits of zero.
C23_MultiHeightBypassesCap ==
  (pc = "idle" /\ ~halted) =>
    \A a \in ProposalArgs :
      getCellHeightInRows(design, a.ndi) > 1 =>
        LET p == tryMove3(design, Mgr, a.ndi, left[a.ndi], bottom[a.ndi], a.si,
                          a.xj, TargetY(a.sj, a.xj), a.sj)
            q == tryMove3(design, [Mgr EXCEPT !.maxDispX = 0, !.maxDispY = 0], a.ndi,
                          left[a.ndi], bottom[a.ndi], a.si,
                          a.xj, TargetY(a.sj, a.xj), a.sj)
        IN p.ret = q.ret /\ p.st.ml = q.st.ml

\* An accepted tryMove3 has put a multi-height cell farther from its original
\* position than the displacement limits allow.
C23_Witness ==
  /\ lastOp = "acceptMove"
  /\ ~halted
  /\ Len(moveList) = 1
  /\ getCellHeightInRows(design, moveList[1].node) > 1
  /\ left[moveList[1].node] = moveList[1].newLeft
  /\ bottom[moveList[1].node] = moveList[1].newBottom
  /\ ~WithinLimits(moveList[1].node, left[moveList[1].node], bottom[moveList[1].node])

\* The cells of segment sj with cell nd put in front of position it can be
\* placed on the sites of the segment in this order with the required
\* spacing between them and to the ends of the segment.
CanMakeRoom(nd, sj, it) ==
  LET seg == m_segments[sj]
      seq == InsertAt(m_cellsInSeg[sj], it, nd)
      n == Len(seq)
      grid == {design.rowLeft[seg.rowId] + k * design.siteSpacing[seg.rowId] :
                 k \in 0..NumSites}
  IN \E q \in [1..n -> grid] :
       /\ seg.minX + getCellSpacing(design, NoCell, seq[1]) <= q[1]
       /\ q[n] + Width(design, seq[n]) + getCellSpacing(design, seq[n], NoCell) <= seg.maxX
       /\ \A i \in 1..(n - 1) :
            q[i] + Width(design, seq[i]) + getCellSpacing(design, seq[i], seq[i + 1])
              <= q[i + 1]

\* C24: a single-height cell proposed for a place between two single-height
\* cells of another segment of its region that are too close for it, in a
\* segment of single-height cells that has room for all of them, is staged by
\* tryMove1 together with at least one shifted neighbour.
C24_TryMove1Cascades ==
  (pc = "idle" /\ ~halted) =>
    \A a \in ProposalArgs :
      LET list == m_cellsInSeg[a.sj]
          it == LowerBound(design, Mgr, list, 2 * a.xj)
          p == tryMove1(design, Mgr, a.ndi, left[a.ndi], bottom[a.ndi], a.si,
                        a.xj, TargetY(a.sj, a.xj), a.sj)
      IN ( /\ getCellHeightInRows(design, a.ndi) = 1
           /\ a.sj # a.si
           /\ RegionId(design, a.ndi) = m_segments[a.sj].regId
           /\ \A i \in 1..Len(list) : getCellHeightInRows(design, list[i]) = 1
           /\ 1 < it /\ it <= Len(list)
           /\ left[list[it]] - getCellSpacing(design, a.ndi, list[it])
                - (left[list[it - 1]] + Width(design, list[it - 1])
                   + getCellSpacing(design, list[it - 1], a.ndi))
                < Width(design, a.ndi)
           /\ CanMakeRoom(a.ndi, a.sj, it) ) =>
           /\ p.ret
           /\ Len(p.st.ml) >= 2
           /\ p.st.ml[1].node = a.ndi

\* The sites of the row of segment 1 that lie inside the limits, and the
\* sites the cells of segment 1 need, spacing included.
SitesInRange ==
  LET seg == m_segments[1]
      sp == design.siteSpacing[seg.rowId]
  IN Cardinality({k \in 0..RowWidth :
                    /\ seg.minX <= design.rowLeft[seg.rowId] + k * sp
                    /\ design.rowLeft[seg.rowId] + k * sp + design.siteWidth[seg.rowId]
                         <= seg.maxX})
SitesNeeded ==
  LET cells == m_cellsInSeg[1]
      n == Len(cells)
      sp == design.siteSpacing[m_segments[1].rowId]
      need(i) == Width(design, cells[i]) +
                 (IF i < n THEN getCellSpacing(design, cells[i], cells[i + 1]) ELSE 0)
  IN SumSeq([i \in 1..n |-> (need(i) + sp - 1) \div sp], 1, n)

\* C25: when shift returns true the returned positions are on the site grid,
\* inside the limits, in the given order and apart by width plus spacing;
\* shift returns false when the cells need more sites than the range has.
C25_ShiftLegal ==
  lastOp = "shift" =>
    /\ ret => left \in ShiftPlacements
    /\ SitesNeeded > SitesInRange => ~ret

\* shift has moved two cells with padding between them off their targets.
C25_Witness ==
  /\ lastOp = "shift"
  /\ ret
  /\ Len(m_cellsInSeg[1]) = 2
  /\ getCellSpacing(design, 1, 2) > 0
  /\ left[2] # OrigLeft(design, 2)
  /\ left[2] < left[1] + 2 * design.siteSpacing[0] + Width(design, 1)

\* C26: after assignCellsToSegments the cell list of every segment is in
\* the order of the x-centres of the cells at their final positions.
C26_AssignSortsByCentre ==
  (lastOp = "assign" /\ ~halted) =>
    \A k \in SegIds :
      \A i \in 1..(Len(m_cellsInSeg[k]) - 1) :
        Center2(design, Mgr, m_cellsInSeg[k][i]) <=
          Center2(design, Mgr, m_cellsInSeg[k][i + 1])

\* C27: in every reachable state the utilization of every segment is the sum
\* of the widths of the cells in its cell list.
C27_UtilizationIsSumOfWidths ==
  \A k \in SegIds : m_segments[k].util = UtilOf(k)

\* Two accepted moves, the last one moving a cell to another segment, have
\* left a segment with cells and one without.
C27_Witness ==
  /\ lastOp = "acceptMove"
  /\ steps = 2
  /\ ~halted
  /\ \E i \in 1..Len(moveList) : moveList[i].newSeg # moveList[i].curSeg
  /\ \E k \in SegIds : m_segments[k].util > 0 /\ Len(m_cellsInSeg[k]) > 1
  /\ \E k \in SegIds : m_segments[k].util = 0

\* Site k of row r is unavailable: a blockage of the row overlaps it.
SiteBlocked(r, k) ==
  LET x == design.rowLeft[r] + k * design.siteSpacing[r]
  IN \E i \in 1..Len(m_blockages[r]) :
       m_blockages[r][i][1] < x + design.siteWidth[r] /\ x < m_blockages[r][i][2]

\* C28: with routing obstructions and no fixed cells, a site of a row is
\* unavailable only if an obstruction on one of the two bottom layers spans
\* the whole y-extent of the row and covers the whole site in x.
C28_RouteBlockagesConservative ==
  lastOp = "findBlockages" =>
    \A r \in Rows(design) : \A k \in 0..(NumSites - 1) :
      SiteBlocked(r, k) =>
        \E i \in 1..Len(design.routeBlockages) :
          LET b == design.routeBlockages[i]
              x == design.rowLeft[r] + k * design.siteSpacing[r]
          IN /\ b.layer <= 1
             /\ b.ymin <= RowBottom(design, r) /\ RowTop(design, r) <= b.ymax
             /\ b.xmin <= x /\ x + design.siteWidth[r] <= b.xmax

\* The spacing the architecture requires between cell l and the cell r to
\* its right: the right padding of l plus the left padding of r.
RequiredSpacing(l, r) == design.cells[l].padR + design.cells[r].padL

\* Consecutive cells of every list keep the required spacing.
SpacingLegal ==
  \A k \in SegIds : \A i \in 1..(Len(m_cellsInSeg[k]) - 1) :
    CellRight(m_cellsInSeg[k][i]) + RequiredSpacing(m_cellsInSeg[k][i], m_cellsInSeg[k][i + 1])
      <= left[m_cellsInSeg[k][i + 1]]

\* The staged list is a swap of two cells that are consecutive in one list.
StagedAdjacentSwap ==
  /\ lastOp = "trySwap1"
  /\ Len(moveList) = 2
  /\ moveList[1].curSeg = moveList[2].curSeg
  /\ LET list == m_cellsInSeg[moveList[1].curSeg[1]]
     IN Abs(Find(list, moveList[1].node) - Find(list, moveList[2].node)) = 1

\* After the step, cell c keeps the required spacing to the cell before it
\* and to the cell after it in each of its segments.
SpacedAfter(c) ==
  \A j \in 1..Len(m_reverseCellToSegs'[c]) :
    LET list == m_cellsInSeg'[m_reverseCellToSegs'[c][j]]
        i == Find(list, c)
    IN /\ i > 1 =>
            left'[list[i - 1]] + Width(design, list[i - 1])
              + RequiredSpacing(list[i - 1], c) <= left'[c]
       /\ i < Len(list) =>
            left'[c] + Width(design, c) + RequiredSpacing(c, list[i + 1])
              <= left'[list[i + 1]]

FullContainment(sl, sr, il, ir) == il <= sl /\ sr <= ir
RightPartial(sl, sr, il, ir) == sl < il /\ sr <= ir
LeftPartial(sl, sr, il, ir) == il <= sl /\ ir < sr
Interior(sl, sr, il, ir) == sl < il /\ ir < sr

\* C30: findSegments never raises the internal error of region splitting:
\* for every segment [sl, sr) on a row and every merged region interval
\* [il, ir) of the design that overlap, exactly one of full containment,
\* right-partial, left-partial and interior applies and the case analysis of
\* the split picks it; and no build ends with the error, the segments pushed
\* during a pass being visited by the pass as well.
C30_SplitNeverFatal ==
  /\ lastOp = "findSegments" => ~halted
  /\ \A reg \in 1..Len(design.regions) : \A r \in Rows(design) :
       \A iv \in RegionIntervals(reg, r) :
         \A sl \in 0..(RowWidth - 1) : \A sr \in (sl + 1)..RowWidth :
           (iv[2] > sl /\ iv[1] < sr) =>
             /\ SplitCase(sl, sr, iv[1], iv[2]) \in 1..4
             /\ FullContainment(sl, sr, iv[1], iv[2]) <=> SplitCase(sl, sr, iv[1], iv[2]) = 1
             /\ RightPartial(sl, sr, iv[1], iv[2]) <=> SplitCase(sl, sr, iv[1], iv[2]) = 2
             /\ LeftPartial(sl, sr, iv[1], iv[2]) <=> SplitCase(sl, sr, iv[1], iv[2]) = 3
             /\ Interior(sl, sr, iv[1], iv[2]) <=> SplitCase(sl, sr, iv[1], iv[2]) = 4

\* A row without blockages that the regions have cut into three segments or
\* more: the interior case, or a second split, has happened, and the pushed
\* segments have been visited.
C30_Witness ==
  /\ lastOp = "findSegments"
  /\ ~halted
  /\ \E r \in Rows(design) :
       /\ m_blockages[r] = <<>>
       /\ Len(m_segsInRow[r]) >= 3


====
